---- MODULE Spec2Model ----
(***************************************************************************)
(* Model of src/sync.py (class PrismaAccessSync): the name-based           *)
(* reconciliation of data patterns and data profiles from one source       *)
(* tenant into several destination tenants.                                *)
(*                                                                         *)
(* Entities are records (Python dicts), lists are sequences.  Every        *)
(* remote call (list / create / update) is one step of sync and is         *)
(* appended to the history variable `calls`; a remote call may fail.       *)
(***************************************************************************)
EXTENDS Integers, Sequences, FiniteSets, TLC

(***************************************************************************)
(* Bounds of the model                                                     *)
(***************************************************************************)
\* number of remote calls that may fail in one run
MaxFailures == 2

(***************************************************************************)
(* Generic helpers for Python dict / list semantics                        *)
(***************************************************************************)
Has(d, k) == k \in DOMAIN d

Range(s) == {s[i] : i \in DOMAIN s}

SetMax(S) == CHOOSE m \in S : \A n \in S : n <= m

(***************************************************************************)
(* METADATA_FIELDS (sync.py 14-17) and _normalize_pattern (128-138)        *)
(***************************************************************************)
\* the list without its last entry
METADATA_FIELDS_short ==
    {"id", "created_at", "created_by", "updated_at",
     "updated_by", "version", "tenant"}

METADATA_FIELDS ==
    {"id", "created_at", "created_by", "updated_at",
     "updated_by", "version", "tenant", "tenant_id"}

_normalize_pattern(pattern) ==
    [k \in (DOMAIN pattern) \ METADATA_FIELDS |-> pattern[k]]

(***************************************************************************)
(* Reference rewriting (sync.py 140-181, 229-255).  The code deep-copies   *)
(* the profile and edits the copy; the operators return the edited copy.   *)
(***************************************************************************)
\* pattern_id_mapping.get(id) for every id; -1 stands for None
_remap_rule_item_get(rule_item, pattern_id_mapping) ==
    IF Has(rule_item, "id")
    THEN [rule_item EXCEPT !.id = IF rule_item.id \in DOMAIN pattern_id_mapping
                                  THEN pattern_id_mapping[rule_item.id]
                                  ELSE -1]
    ELSE rule_item

\* lines 160-162: one rule_item of an advance rule condition
_remap_rule_item(rule_item, pattern_id_mapping) ==
    IF Has(rule_item, "id") /\ rule_item.id \in DOMAIN pattern_id_mapping
    THEN [rule_item EXCEPT !.id = pattern_id_mapping[rule_item.id]]
    ELSE rule_item

RECURSIVE _remap_expression_tree(_, _)
_remap_expression_tree(tree, pattern_id_mapping) ==
    LET t1 == IF Has(tree, "rule_item")
              THEN [tree EXCEPT !.rule_item =
                        _remap_rule_item(tree.rule_item, pattern_id_mapping)]
              ELSE tree
    IN  IF Has(t1, "sub_expressions") /\ t1.sub_expressions # <<>>
        THEN [t1 EXCEPT !.sub_expressions =
                 [i \in DOMAIN t1.sub_expressions |->
                     _remap_expression_tree(t1.sub_expressions[i],
                                            pattern_id_mapping)]]
        ELSE t1

\* the advance rules left as they are
_remap_advance_rule_skip(rule, pattern_id_mapping) == rule

\* lines 157-162: one rule of advance_data_patterns_rules
_remap_advance_rule(rule, pattern_id_mapping) ==
    IF Has(rule, "conditions") /\ rule.conditions # <<>>
    THEN [rule EXCEPT !.conditions =
            [c \in DOMAIN rule.conditions |->
                LET condition == rule.conditions[c]
                IN  IF Has(condition, "rule_items") /\ condition.rule_items # <<>>
                    THEN [condition EXCEPT !.rule_items =
                            [r \in DOMAIN condition.rule_items |->
                                _remap_rule_item(condition.rule_items[r],
                                                 pattern_id_mapping)]]
                    ELSE condition]]
    ELSE rule

_remap_pattern_ids(profile, pattern_id_mapping) ==
    LET p1 == IF Has(profile, "advance_data_patterns_rules")
                 /\ profile.advance_data_patterns_rules # <<>>
              THEN [profile EXCEPT !.advance_data_patterns_rules =
                      [i \in DOMAIN profile.advance_data_patterns_rules |->
                          _remap_advance_rule(
                              profile.advance_data_patterns_rules[i],
                              pattern_id_mapping)]]
              ELSE profile
    IN  IF Has(p1, "detection_rules") /\ p1.detection_rules # <<>>
        THEN [p1 EXCEPT !.detection_rules =
                [i \in DOMAIN p1.detection_rules |->
                    LET detection_rule == p1.detection_rules[i]
                    IN  IF Has(detection_rule, "expression_tree")
                        THEN [detection_rule EXCEPT !.expression_tree =
                                _remap_expression_tree(
                                    detection_rule.expression_tree,
                                    pattern_id_mapping)]
                        ELSE detection_rule]]
        ELSE p1

\* profile_id_mapping.get(profile_id); -1 stands for None
_remap_profile_id_get(profile_id, profile_id_mapping) ==
    IF profile_id \in DOMAIN profile_id_mapping
    THEN profile_id_mapping[profile_id]
    ELSE -1

\* line 252: profile_id_mapping.get(profile_id, profile_id)
_remap_profile_id(profile_id, profile_id_mapping) ==
    IF profile_id \in DOMAIN profile_id_mapping
    THEN profile_id_mapping[profile_id]
    ELSE profile_id

_remap_profile_ids(profile, profile_id_mapping) ==
    IF Has(profile, "detection_rules") /\ profile.detection_rules # <<>>
    THEN [profile EXCEPT !.detection_rules =
            [i \in DOMAIN profile.detection_rules |->
                LET detection_rule == profile.detection_rules[i]
                IN  IF Has(detection_rule, "rule_type")
                       /\ detection_rule.rule_type = "multi_profile"
                       /\ Has(detection_rule, "multi_profile")
                       /\ Has(detection_rule.multi_profile, "data_profile_ids")
                       /\ detection_rule.multi_profile.data_profile_ids # <<>>
                    THEN [detection_rule EXCEPT !.multi_profile.data_profile_ids =
                            [j \in DOMAIN detection_rule.multi_profile.data_profile_ids |->
                                _remap_profile_id(
                                    detection_rule.multi_profile.data_profile_ids[j],
                                    profile_id_mapping)]]
                    ELSE detection_rule]]
    ELSE profile

(***************************************************************************)
(* The caller's object after a rewriting call.  Python passes the dict by  *)
(* reference; _remap_pattern_ids (151-152) and _remap_profile_ids          *)
(* (240-241) rebind `profile` to copy.deepcopy(profile) before the first   *)
(* edit, so every edit lands on the copy.  _normalize_pattern (138) builds *)
(* a new dict that shares the nested values of its argument.               *)
(***************************************************************************)
\* the edits of lines 155-168 made on the caller's object
ArgAfter_remap_pattern_ids_inplace(profile, pattern_id_mapping) ==
    _remap_pattern_ids(profile, pattern_id_mapping)

ArgAfter_remap_pattern_ids(profile, pattern_id_mapping) == profile

\* the edits of lines 244-253 made on the caller's object
ArgAfter_remap_profile_ids_inplace(profile, profile_id_mapping) ==
    _remap_profile_ids(profile, profile_id_mapping)

ArgAfter_remap_profile_ids(profile, profile_id_mapping) == profile

\* keys deleted from the argument itself
ArgAfter_normalize_pattern_del(pattern) == _normalize_pattern(pattern)

ArgAfter_normalize_pattern(pattern) == pattern

\* an entity whose nested values are the ones of `norm`, the dict that
\* _normalize_pattern made of it
Shared(entity, norm) ==
    [k \in DOMAIN entity |-> IF k \in DOMAIN norm THEN norm[k] ELSE entity[k]]

(***************************************************************************)
(* Identity maps (sync.py 183-227): a function source id -> destination id *)
(***************************************************************************)
\* {p['name']: p['id'] for p in dest}: the last entry of a name wins
DestByName(dest) ==
    [n \in {dest[i].name : i \in DOMAIN dest} |->
        dest[SetMax({i \in DOMAIN dest : dest[i].name = n})].id]

\* an entry for every source item, its own ID when the name is missing
_build_pattern_id_mapping_total(source_patterns, dest_patterns) ==
    LET dest_by_name == DestByName(dest_patterns)
    IN  [sid \in {source_patterns[i].id : i \in DOMAIN source_patterns} |->
            LET sp == source_patterns[SetMax({i \in DOMAIN source_patterns :
                                                source_patterns[i].id = sid})]
            IN  IF sp.name \in DOMAIN dest_by_name
                THEN dest_by_name[sp.name] ELSE sid]

_build_pattern_id_mapping(source_patterns, dest_patterns) ==
    LET dest_by_name == DestByName(dest_patterns)
        matched == {i \in DOMAIN source_patterns :
                       source_patterns[i].name \in DOMAIN dest_by_name}
    IN  [sid \in {source_patterns[i].id : i \in matched} |->
            dest_by_name[source_patterns[
                SetMax({i \in matched : source_patterns[i].id = sid})].name]]

_build_profile_id_mapping(source_profiles, dest_profiles) ==
    LET dest_by_name == DestByName(dest_profiles)
        matched == {i \in DOMAIN source_profiles :
                       source_profiles[i].name \in DOMAIN dest_by_name}
    IN  [sid \in {source_profiles[i].id : i \in matched} |->
            dest_by_name[source_profiles[
                SetMax({i \in matched : source_profiles[i].id = sid})].name]]

(***************************************************************************)
(* DeepDiff(source_norm, dest_norm, ignore_order=True,                     *)
(*          exclude_regex_paths=r".*\['supported_confidence_levels'\]")    *)
(* as called at sync.py 298-303.  Every list is compared as the set of its *)
(* elements, and every dict key named by the excluded path is dropped at   *)
(* every depth, before the two sides are compared.  The result is the set  *)
(* of top-level keys on which the two sides differ; it is empty exactly    *)
(* when DeepDiff returns an empty (falsy) diff.                            *)
(***************************************************************************)
\* no excluded path
EXCLUDED_KEYS_none == {}

EXCLUDED_KEYS == {"supported_confidence_levels"}

CanonRuleItem(rule_item) ==
    [k \in (DOMAIN rule_item) \ EXCLUDED_KEYS |-> rule_item[k]]

RECURSIVE CanonTree(_)
CanonTree(tree) ==
    [k \in (DOMAIN tree) \ EXCLUDED_KEYS |->
        IF k = "rule_item" THEN CanonRuleItem(tree[k])
        ELSE IF k = "sub_expressions"
             THEN {CanonTree(tree[k][i]) : i \in DOMAIN tree[k]}
             ELSE tree[k]]

CanonMultiProfile(multi_profile) ==
    [k \in (DOMAIN multi_profile) \ EXCLUDED_KEYS |->
        IF k = "data_profile_ids" THEN Range(multi_profile[k])
        ELSE multi_profile[k]]

CanonDetectionRule(detection_rule) ==
    [k \in (DOMAIN detection_rule) \ EXCLUDED_KEYS |->
        IF k = "expression_tree" THEN CanonTree(detection_rule[k])
        ELSE IF k = "multi_profile" THEN CanonMultiProfile(detection_rule[k])
             ELSE detection_rule[k]]

\* the rule_items compared in their order
CanonCondition_ordered(condition) ==
    [k \in (DOMAIN condition) \ EXCLUDED_KEYS |->
        IF k = "rule_items"
        THEN [i \in DOMAIN condition[k] |-> CanonRuleItem(condition[k][i])]
        ELSE condition[k]]

CanonCondition(condition) ==
    [k \in (DOMAIN condition) \ EXCLUDED_KEYS |->
        IF k = "rule_items"
        THEN {CanonRuleItem(condition[k][i]) : i \in DOMAIN condition[k]}
        ELSE condition[k]]

CanonAdvanceRule(rule) ==
    [k \in (DOMAIN rule) \ EXCLUDED_KEYS |->
        IF k = "conditions"
        THEN {CanonCondition(rule[k][i]) : i \in DOMAIN rule[k]}
        ELSE rule[k]]

CanonField(k, v) ==
    IF k = "detection_rules"
    THEN {CanonDetectionRule(v[i]) : i \in DOMAIN v}
    ELSE IF k = "advance_data_patterns_rules"
         THEN {CanonAdvanceRule(v[i]) : i \in DOMAIN v}
         ELSE v

DeepDiff(t1, t2) ==
    LET k1 == (DOMAIN t1) \ EXCLUDED_KEYS
        k2 == (DOMAIN t2) \ EXCLUDED_KEYS
    IN  {k \in k1 \cup k2 :
            \/ k \notin k1
            \/ k \notin k2
            \/ CanonField(k, t1[k]) # CanonField(k, t2[k])}

(***************************************************************************)
(* compare_patterns (sync.py 257-316)                                      *)
(***************************************************************************)
\* {p['name']: p for p in lst} as the sequence of its values in iteration
\* order: a name keeps the position of its first entry and the value of
\* its last one
DictByName(lst) ==
    LET firsts == SelectSeq([i \in DOMAIN lst |-> i],
                      LAMBDA i : \A j \in 1..(i - 1) : lst[j].name # lst[i].name)
    IN  [k \in DOMAIN firsts |->
            lst[SetMax({i \in DOMAIN lst : lst[i].name = lst[firsts[k]].name})]]

\* a lookup that ignores the name
DictGet_first(dict, name) == dict[1]

\* dest_dict[name] (lines 294 and 309), for a name that is a key
DictGet(dict, name) ==
    dict[CHOOSE i \in DOMAIN dict : dict[i].name = name]

\* lines 284-294: the two sides handed to DeepDiff
SourceNorm(source_pattern, pmap, fmap) ==
    LET n0 == _normalize_pattern(source_pattern)
        n1 == IF DOMAIN pmap # {} THEN _remap_pattern_ids(n0, pmap) ELSE n0
    IN  IF DOMAIN fmap # {} THEN _remap_profile_ids(n1, fmap) ELSE n1

\* items are created only in a destination that holds nothing
Missing_whenempty(source_dict, dest_names) ==
    IF dest_names = {} THEN source_dict ELSE << >>

\* lines 278-281: the values whose name is not a key of dest_dict
Missing(source_dict, dest_names) ==
    SelectSeq(source_dict, LAMBDA sp : sp.name \notin dest_names)

compare_patterns(source_list, dest_list, pmap, fmap) ==
    LET source_dict == DictByName(source_list)
        dest_dict == DictByName(dest_list)
        dest_names == {dest_dict[i].name : i \in DOMAIN dest_dict}
        DestOf(name) == DictGet(dest_dict, name)
        Diff(sp) == DeepDiff(SourceNorm(sp, pmap, fmap),
                             _normalize_pattern(DestOf(sp.name)))
        common == SelectSeq(source_dict, LAMBDA sp : sp.name \in dest_names)
        changed == SelectSeq(common, LAMBDA sp : Diff(sp) # {})
    IN  [to_create |-> Missing(source_dict, dest_names),
         to_update |-> [i \in DOMAIN changed |->
                          [source |-> changed[i],
                           destination |-> DestOf(changed[i].name),
                           diff |-> Diff(changed[i])]],
         identical |-> SelectSeq(common, LAMBDA sp : Diff(sp) = {})]

\* the caller's source list after compare_patterns: each entity whose name
\* the destination holds went through lines 284-292; the second rewriting
\* call gets the normalized dict itself only when the first was skipped
compare_patterns_source(source_list, dest_list, pmap, fmap) ==
    LET dest_names == {dest_list[i].name : i \in DOMAIN dest_list}
        After(sp) ==
            LET n0 == ArgAfter_normalize_pattern(sp)
                n1 == _normalize_pattern(n0)
                a1 == IF DOMAIN pmap # {}
                      THEN ArgAfter_remap_pattern_ids(n1, pmap) ELSE n1
                a2 == IF DOMAIN pmap = {} /\ DOMAIN fmap # {}
                      THEN ArgAfter_remap_profile_ids(a1, fmap) ELSE a1
            IN  Shared(n0, a2)
    IN  [i \in DOMAIN source_list |->
            IF source_list[i].name \in dest_names
            THEN After(source_list[i]) ELSE source_list[i]]

(***************************************************************************)
(* The tenants of the modelled runs.  A tenant's entity store holds one    *)
(* sequence of entities per kind; IDs are local to a tenant: destination   *)
(* IDs are the source's shifted by IdShift, so that the ID spaces of       *)
(* Source and Prod overlap and those of Source and Dev do not.             *)
(***************************************************************************)
Tenants == {"Source", "Prod", "Dev"}

IdShift(t) == IF t = "Prod" THEN 1 ELSE IF t = "Dev" THEN 20 ELSE 0

Pattern(id, name, type, regex) ==
    [id |-> id, name |-> name, type |-> type, version |-> 1, regex |-> regex]

Leaf(pid) == [rule_item |-> [id |-> pid]]

\* the entity named X: a simple rule over patterns A, P and B, and one
\* advance rule over B and A
ProfileX(id, a, b, p, version) ==
    [id |-> id, name |-> "X", profile_type |-> "custom", version |-> version,
     detection_rules |->
        << [rule_type |-> "simple",
            expression_tree |->
               [operator |-> "and",
                sub_expressions |->
                   << Leaf(a),
                      [operator |-> "or",
                       sub_expressions |-> << Leaf(p), Leaf(b) >>] >>]] >>,
     advance_data_patterns_rules |->
        << [conditions |-> << [rule_items |-> << [id |-> b], [id |-> a] >>] >>] >>]

\* X as a destination returns it when it holds the same configuration:
\* lists reordered and supported_confidence_levels added by the service
ProfileXServed(id, a, b, p, version) ==
    [id |-> id, name |-> "X", profile_type |-> "custom", version |-> version,
     detection_rules |->
        << [rule_type |-> "simple",
            expression_tree |->
               [operator |-> "and",
                sub_expressions |->
                   << [operator |-> "or",
                       sub_expressions |-> << Leaf(b), Leaf(p) >>],
                      [rule_item |->
                          [id |-> a,
                           supported_confidence_levels |-> <<"high", "low">>]] >>]] >>,
     advance_data_patterns_rules |->
        << [conditions |-> << [rule_items |-> << [id |-> a], [id |-> b] >>] >>] >>]

\* X with a different configuration: the rule over B is missing
ProfileXOther(id, a, b, p, version) ==
    [id |-> id, name |-> "X", profile_type |-> "custom", version |-> version,
     detection_rules |->
        << [rule_type |-> "simple",
            expression_tree |->
               [operator |-> "and",
                sub_expressions |-> << Leaf(a), Leaf(p) >>]] >>,
     advance_data_patterns_rules |-> << >>]

\* the entity named Y: a granular profile over the profiles X and Q
ProfileY(id, x, q, version) ==
    [id |-> id, name |-> "Y", profile_type |-> "custom", version |-> version,
     detection_rules |->
        << [rule_type |-> "multi_profile",
            multi_profile |-> [data_profile_ids |-> << x, q >>]] >>,
     advance_data_patterns_rules |-> << >>]

PlainProfile(id, name, type) ==
    [id |-> id, name |-> name, profile_type |-> type, version |-> 1,
     detection_rules |-> << >>, advance_data_patterns_rules |-> << >>]

SourceStore ==
    [pattern |-> << Pattern(3, "P", "predefined", "p"),
                    Pattern(1, "A", "custom", "a"),
                    Pattern(2, "B", "custom", "b") >>,
     profile |-> << PlainProfile(30, "Q", "predefined"),
                    ProfileX(10, 1, 2, 3, 1),
                    ProfileY(11, 10, 30, 1) >>]

\* what a destination holds of each source entity
Options == {"absent", "same", "other"}

DestStore(t, o) ==
    LET s == IdShift(t)
    IN  [pattern |->
            << Pattern(3 + s, "P", "predefined", IF t = "Dev" THEN "p2" ELSE "p"),
               Pattern(9 + s, "Z", "custom", "z") >>
            \o (IF o.A = "absent" THEN << >>
                ELSE << [Pattern(1 + s, "A", "custom",
                                 IF o.A = "same" THEN "a" ELSE "a2")
                            EXCEPT !.version = 4] >>)
            \o (IF o.B = "absent" THEN << >>
                ELSE << Pattern(2 + s, "B", "custom", "b") >>),
         profile |->
            << PlainProfile(30 + s, "Q", "predefined"),
               PlainProfile(19 + s, "W", "custom") >>
            \o (IF o.Y = "absent" THEN << >>
                ELSE << ProfileY(11 + s, 10 + s, 30 + s, 2) >>)
            \o (IF o.X = "absent" THEN << >>
                ELSE IF o.X = "same"
                     THEN << ProfileXServed(10 + s, 1 + s, 2 + s, 3 + s, 5) >>
                     ELSE << ProfileXOther(10 + s, 1 + s, 2 + s, 3 + s, 5) >>)]

DestOptions(t) ==
    IF t = "Prod"
    THEN { [A |-> "absent", B |-> "absent", X |-> "absent", Y |-> "absent"],
           [A |-> "same",   B |-> "same",   X |-> "same",   Y |-> "same"],
           [A |-> "other",  B |-> "same",   X |-> "other",  Y |-> "same"],
           [A |-> "same",   B |-> "absent", X |-> "same",   Y |-> "absent"],
           [A |-> "absent", B |-> "same",   X |-> "other",  Y |-> "absent"] }
    ELSE { [A |-> "other",  B |-> "same",   X |-> "absent", Y |-> "absent"],
           [A |-> "same",   B |-> "absent", X |-> "same",   Y |-> "same"] }

\* target_tenants of sync: None, or a list of names (only membership in
\* the list is used, line 454)
TargetChoices ==
    { [given |-> FALSE, names |-> {}],
      [given |-> TRUE,  names |-> {}],
      [given |-> TRUE,  names |-> {"Prod"}],
      [given |-> TRUE,  names |-> {"Dev"}],
      [given |-> TRUE,  names |-> {"Ghost"}],
      [given |-> TRUE,  names |-> {"Dev", "Ghost"}] }

(***************************************************************************)
(* State                                                                   *)
(***************************************************************************)
VARIABLES
    store,                \* tenant -> kind -> the entities the tenant holds
    destinations,         \* self.destinations: the authenticated destinations
    dry_run,              \* argument of sync
    target_tenants,       \* argument of sync
    pc,                   \* position of sync
    returned,             \* "pending", or what sync returned
    source_patterns,      \* locals of sync, named as in the code
    source_profiles,
    tenants_to_sync,
    global_report,
    d,                    \* position of the loop over tenants_to_sync
    item,                 \* position of the current create / update loop
    patterns_plan,        \* patterns_to_create, _to_update, _identical
    profiles_plan,        \* profiles_to_create, _to_update, _identical
    report,
    all_source_patterns,
    pattern_id_mapping,
    profile_id_mapping,
    calls,                \* history: every remote call issued, in order
    failures,             \* history: number of remote calls that failed
    call_args,            \* a method called on its own: its name and the
                          \* objects handed to it, as they are now
    call_result,          \* what that call returned, once it has
    printed,              \* the connection messages __init__ printed
    earlier               \* history: the calls of sync that have returned on
                          \* this object, each with its arguments, its
                          \* remote calls and its report

inputs == <<destinations, dry_run, target_tenants>>
locals == <<source_patterns, source_profiles, tenants_to_sync, global_report,
            d, item, patterns_plan, profiles_plan, report,
            all_source_patterns, pattern_id_mapping, profile_id_mapping>>
direct == <<call_args, call_result>>
vars == <<store, inputs, pc, returned, locals, calls, failures, direct,
         printed, earlier>>

EmptyPlan == [to_create |-> << >>, to_update |-> << >>, identical |-> << >>]

EmptyCounts ==
    [to_create |-> 0, to_update |-> 0, identical |-> 0,
     created |-> << >>, updated |-> << >>, errors |-> << >>]

Init ==
    /\ \E op \in DestOptions("Prod"), od \in DestOptions("Dev") :
          store = [t \in Tenants |->
                      IF t = "Source" THEN SourceStore
                      ELSE DestStore(t, IF t = "Prod" THEN op ELSE od)]
    /\ destinations = << [name |-> "Prod", token |-> "Prod"],
                         [name |-> "Dev", token |-> "Dev"] >>
    /\ dry_run \in BOOLEAN
    /\ target_tenants \in TargetChoices
    /\ pc = "source_patterns"
    /\ returned = "pending"
    /\ source_patterns = << >>
    /\ source_profiles = << >>
    /\ tenants_to_sync = << >>
    /\ global_report = [tenants |-> << >>]
    /\ d = 1
    /\ item = 1
    /\ patterns_plan = EmptyPlan
    /\ profiles_plan = EmptyPlan
    /\ report = [patterns |-> EmptyCounts, profiles |-> EmptyCounts]
    /\ all_source_patterns = << >>
    /\ pattern_id_mapping = << >>
    /\ profile_id_mapping = << >>
    /\ calls = << >>
    /\ failures = 0
    /\ call_args = [fn |-> "sync"]
    /\ call_result = [done |-> FALSE]
    /\ printed = << >>
    /\ earlier = << >>

(***************************************************************************)
(* The Entity Store of a tenant, as the remote API the code calls          *)
(***************************************************************************)
\* the listing without the filter of line 97
get_data_patterns_all(token, custom_only) == store[token].pattern

\* get_data_patterns (78-99) and get_data_profiles (101-126) on a
\* successful response; the token names the tenant
get_data_patterns(token, custom_only) ==
    IF custom_only
    THEN SelectSeq(store[token].pattern,
                   LAMBDA p : ~(Has(p, "type") /\ p.type = "predefined"))
    ELSE store[token].pattern

get_data_profiles(token, custom_only) ==
    IF custom_only
    THEN SelectSeq(store[token].profile,
                   LAMBDA p : Has(p, "profile_type") /\ p.profile_type = "custom")
    ELSE store[token].profile

\* the JSON bodies of the four mutating requests (318-429)
create_pattern(pattern) == _normalize_pattern(pattern)

update_pattern(pattern) == _normalize_pattern(pattern)

\* the body with the pattern references rewritten a second time
CleanProfile_twice(profile, pmap, fmap) ==
    LET c1 == _remap_pattern_ids(
                  _remap_pattern_ids(_normalize_pattern(profile), pmap), pmap)
    IN  IF DOMAIN fmap # {} THEN _remap_profile_ids(c1, fmap) ELSE c1

\* lines 350-356 and 410-416: normalize, then rewrite the pattern references,
\* then the profile references when the profile map is not empty
CleanProfile(profile, pmap, fmap) ==
    LET c1 == _remap_pattern_ids(_normalize_pattern(profile), pmap)
    IN  IF DOMAIN fmap # {} THEN _remap_profile_ids(c1, fmap) ELSE c1

create_profile(profile, pmap, fmap) ==
    [dataProfile |-> CleanProfile(profile, pmap, fmap)]

update_profile(profile, pmap, fmap) ==
    [dataProfile |-> CleanProfile(profile, pmap, fmap)]

\* the caller's profile after create_profile / update_profile: line 351
\* (409) hands the normalized dict to _remap_pattern_ids, and line 355 (413)
\* hands on the dict that call returned
write_profile_source(profile, pmap, fmap) ==
    LET n0 == ArgAfter_normalize_pattern(profile)
    IN  Shared(n0, ArgAfter_remap_pattern_ids(_normalize_pattern(n0), pmap))

\* the source list after one of its entities went through a call
SourceListAfter(source_list, name, after) ==
    [i \in DOMAIN source_list |->
        IF source_list[i].name = name THEN after ELSE source_list[i]]

\* what the service does on a successful POST / PUT: a created entity gets
\* an ID that is new in the tenant; an updated entity keeps its ID
FreshId(entities) == SetMax({entities[i].id : i \in DOMAIN entities}) + 1

StoreCreate(entities, body) ==
    Append(entities, body @@ [id |-> FreshId(entities), version |-> 1])

StoreUpdate(entities, id, body) ==
    [i \in DOMAIN entities |->
        IF entities[i].id = id
        THEN body @@ [id |-> id, version |-> entities[i].version + 1]
        ELSE entities[i]]

(***************************************************************************)
(* sync (431-672), one step per remote call                                *)
(***************************************************************************)
Dest == tenants_to_sync[d]

\* the outcomes a remote call can have now
Outcomes == IF failures < MaxFailures THEN BOOLEAN ELSE {TRUE}

Count(ok) == failures' = failures + (IF ok THEN 0 ELSE 1)

ListCall(during, env, kind, custom_only, line, ok) ==
    [op |-> "list", during |-> during, env |-> env, kind |-> kind,
     custom_only |-> custom_only, line |-> line, ok |-> ok]

CreateCall(during, env, kind, name, payload, line, ok) ==
    [op |-> "create", during |-> during, env |-> env, kind |-> kind,
     name |-> name, payload |-> payload, line |-> line, ok |-> ok]

UpdateCall(during, env, kind, name, id, payload, line, ok) ==
    [op |-> "update", during |-> during, env |-> env, kind |-> kind,
     name |-> name, id |-> id, payload |-> payload, line |-> line, ok |-> ok]

\* the selection without the filter of line 454
SelectTenants_all(dests, target) == dests

\* lines 451-457
SelectTenants(dests, target) ==
    IF target.given /\ target.names # {}
    THEN SelectSeq(dests, LAMBDA x : x.name \in target.names)
    ELSE dests

\* line 522: `if not dry_run`, the guard of the pattern modifications
\* the guard of line 522 left out
ExecutePatterns_always(dr) == TRUE

ExecutePatterns(dr) == ~dr

\* the `continue` of line 603 taken in every mode
SkipProfileExecution_always(dr) == TRUE

\* line 603: `if dry_run`, the guard of the `continue` before the profile
\* modifications
SkipProfileExecution(dr) == dr

\* the same steps with the identity map built before the patterns are
\* modified
NextStage_mapfirst(stage, dr, pplan, fplan) ==
    CASE stage = "dest_patterns" -> "all_source_patterns"
      [] stage = "all_source_patterns" -> "all_dest_patterns"
      [] stage = "all_dest_patterns" ->
            IF ExecutePatterns(dr)
            THEN (IF pplan.to_create # << >> THEN "create_pattern"
                  ELSE IF pplan.to_update # << >> THEN "update_pattern"
                  ELSE "reload_patterns")
            ELSE "dest_profiles"
      [] stage = "create_pattern" ->
            IF pplan.to_update # << >> THEN "update_pattern"
            ELSE "reload_patterns"
      [] stage = "update_pattern" -> "reload_patterns"
      [] stage = "reload_patterns" -> "dest_profiles"
      [] stage = "dest_profiles" ->
            IF SkipProfileExecution(dr) THEN "next"
            ELSE (IF fplan.to_create # << >> THEN "create_profile"
                  ELSE IF fplan.to_update # << >> THEN "update_profile"
                  ELSE "dest_done")
      [] stage = "create_profile" ->
            IF fplan.to_update # << >> THEN "update_profile"
            ELSE "dest_done"
      [] stage = "update_profile" -> "dest_done"
      [] OTHER -> "next"

\* the control flow of one destination (473-645): the step that follows
\* `stage` once the loop of `stage`, if any, is over; "next" is the end of
\* the destination's iteration
NextStage(stage, dr, pplan, fplan) ==
    CASE stage = "dest_patterns" ->
            IF ExecutePatterns(dr)
            THEN (IF pplan.to_create # << >> THEN "create_pattern"
                  ELSE IF pplan.to_update # << >> THEN "update_pattern"
                  ELSE "reload_patterns")
            ELSE "all_source_patterns"
      [] stage = "create_pattern" ->
            IF pplan.to_update # << >> THEN "update_pattern"
            ELSE "reload_patterns"
      [] stage = "update_pattern" -> "reload_patterns"
      [] stage = "reload_patterns" -> "all_source_patterns"
      [] stage = "all_source_patterns" -> "all_dest_patterns"
      [] stage = "all_dest_patterns" -> "dest_profiles"
      [] stage = "dest_profiles" ->
            IF SkipProfileExecution(dr) THEN "next"
            ELSE (IF fplan.to_create # << >> THEN "create_profile"
                  ELSE IF fplan.to_update # << >> THEN "update_profile"
                  ELSE "dest_done")
      [] stage = "create_profile" ->
            IF fplan.to_update # << >> THEN "update_profile"
            ELSE "dest_done"
      [] stage = "update_profile" -> "dest_done"
      [] OTHER -> "next"

\* the loop without the try / except around its body: a failure ends it
LoopNext_break(ok, i, n, here, after) ==
    IF ok /\ i < n THEN here ELSE after

\* a for loop whose body is try / except Exception (530-538, 543-552,
\* 617-625, 630-639): the step after item i of n, whatever its outcome
LoopNext(ok, i, n, here, after) == IF i < n THEN here ELSE after

\* move to step nxt of the current destination, or to the next destination
Goto(nxt) ==
    /\ pc' = IF nxt = "next"
             THEN (IF d < Len(tenants_to_sync) THEN "dest_patterns"
                   ELSE "summary")
             ELSE nxt
    /\ d' = IF nxt = "next" THEN d + 1 ELSE d
    /\ item' = IF nxt = pc THEN item + 1 ELSE 1

\* the except clause rebuilding the tenants dict instead of adding to it
ErrorEntry_only(gr, name) ==
    [gr EXCEPT !.tenants = (name :> [error |-> "sync failed"])]

\* lines 647-651: the except clause of a destination's iteration
ErrorEntry(gr, name) ==
    [gr EXCEPT !.tenants = (name :> [error |-> "sync failed"]) @@ @]

\* lines 605 and 645
ReportEntry(gr, name, rep) ==
    [gr EXCEPT !.tenants = (name :> rep) @@ @]

\* line 445
FetchSourcePatterns ==
    /\ pc = "source_patterns"
    /\ \E ok \in Outcomes :
          /\ calls' = Append(calls, ListCall("", "Source", "pattern", TRUE, 445, ok))
          /\ Count(ok)
          /\ IF ok
             THEN /\ source_patterns' = get_data_patterns("Source", TRUE)
                  /\ pc' = "source_profiles"
             ELSE /\ pc' = "raised"
                  /\ UNCHANGED source_patterns
    /\ UNCHANGED <<direct, printed, earlier, store, inputs, returned, source_profiles, tenants_to_sync,
                   global_report, d, item, patterns_plan, profiles_plan,
                   report, all_source_patterns, pattern_id_mapping,
                   profile_id_mapping>>

\* line 446
FetchSourceProfiles ==
    /\ pc = "source_profiles"
    /\ \E ok \in Outcomes :
          /\ calls' = Append(calls, ListCall("", "Source", "profile", TRUE, 446, ok))
          /\ Count(ok)
          /\ IF ok
             THEN /\ source_profiles' = get_data_profiles("Source", TRUE)
                  /\ pc' = "select"
             ELSE /\ pc' = "raised"
                  /\ UNCHANGED source_profiles
    /\ UNCHANGED <<direct, printed, earlier, store, inputs, returned, source_patterns, tenants_to_sync,
                   global_report, d, item, patterns_plan, profiles_plan,
                   report, all_source_patterns, pattern_id_mapping,
                   profile_id_mapping>>

\* lines 451-465
Select ==
    /\ pc = "select"
    /\ LET sel == SelectTenants(destinations, target_tenants)
       IN  /\ tenants_to_sync' = sel
           /\ IF target_tenants.given /\ target_tenants.names # {} /\ sel = << >>
              THEN /\ returned' = "empty"
                   /\ pc' = "done"
              ELSE /\ returned' = returned
                   /\ pc' = IF sel = << >> THEN "summary" ELSE "dest_patterns"
    /\ global_report' = [source_patterns_count |-> Len(source_patterns),
                         source_profiles_count |-> Len(source_profiles),
                         tenants |-> << >>]
    /\ d' = 1
    /\ UNCHANGED <<direct, printed, earlier, store, inputs, source_patterns, source_profiles, item,
                   patterns_plan, profiles_plan, report, all_source_patterns,
                   pattern_id_mapping, profile_id_mapping, calls, failures>>

\* lines 479-519, and the except clause when the list call fails
ListDestPatterns ==
    /\ pc = "dest_patterns"
    /\ \E ok \in Outcomes :
          /\ calls' = Append(calls, ListCall(Dest.name, Dest.token, "pattern",
                                             TRUE, 479, ok))
          /\ Count(ok)
          /\ IF ok
             THEN LET plan == compare_patterns(source_patterns,
                                  get_data_patterns(Dest.token, TRUE),
                                  << >>, << >>)
                  IN  /\ patterns_plan' = plan
                      /\ report' =
                            [patterns |->
                                [EmptyCounts EXCEPT
                                    !.to_create = Len(plan.to_create),
                                    !.to_update = Len(plan.to_update),
                                    !.identical = Len(plan.identical)],
                             profiles |-> EmptyCounts]
                      /\ Goto(NextStage("dest_patterns", dry_run, plan,
                                        profiles_plan))
                      /\ UNCHANGED global_report
             ELSE /\ global_report' = ErrorEntry(global_report, Dest.name)
                  /\ Goto("next")
                  /\ UNCHANGED <<patterns_plan, report>>
    /\ UNCHANGED <<direct, printed, earlier, store, inputs, returned, source_patterns, source_profiles,
                   tenants_to_sync, profiles_plan, all_source_patterns,
                   pattern_id_mapping, profile_id_mapping>>

\* lines 530-538, one iteration
CreatePattern ==
    /\ pc = "create_pattern"
    /\ \E ok \in Outcomes :
          LET pattern == patterns_plan.to_create[item]
              payload == create_pattern(pattern)
          IN  /\ calls' = Append(calls, CreateCall(Dest.name, Dest.token,
                                     "pattern", pattern.name, payload, 532, ok))
              /\ Count(ok)
              /\ store' = IF ok
                          THEN [store EXCEPT ![Dest.token].pattern =
                                                StoreCreate(@, payload)]
                          ELSE store
              /\ report' = IF ok
                           THEN [report EXCEPT !.patterns.created =
                                                  Append(@, pattern.name)]
                           ELSE [report EXCEPT !.patterns.errors =
                                    Append(@, [action |-> "creating",
                                               name |-> pattern.name])]
              /\ Goto(LoopNext(ok, item, Len(patterns_plan.to_create),
                               "create_pattern",
                               NextStage("create_pattern", dry_run,
                                         patterns_plan, profiles_plan)))
    /\ UNCHANGED <<direct, printed, earlier, inputs, returned, source_patterns, source_profiles,
                   tenants_to_sync, global_report, patterns_plan,
                   profiles_plan, all_source_patterns, pattern_id_mapping,
                   profile_id_mapping>>

\* the update addressed to the ID the entity has in the source
UpdateTargetId_source(entry) == entry.source.id

\* line 545 (and 632): the ID an update is addressed to
UpdateTargetId(entry) == entry.destination.id

\* lines 543-552, one iteration
UpdatePattern ==
    /\ pc = "update_pattern"
    /\ \E ok \in Outcomes :
          LET entry == patterns_plan.to_update[item]
              dest_id == UpdateTargetId(entry)
              payload == update_pattern(entry.source)
          IN  /\ calls' = Append(calls, UpdateCall(Dest.name, Dest.token,
                                     "pattern", entry.source.name, dest_id,
                                     payload, 546, ok))
              /\ Count(ok)
              /\ store' = IF ok
                          THEN [store EXCEPT ![Dest.token].pattern =
                                                StoreUpdate(@, dest_id, payload)]
                          ELSE store
              /\ report' = IF ok
                           THEN [report EXCEPT !.patterns.updated =
                                                  Append(@, entry.source.name)]
                           ELSE [report EXCEPT !.patterns.errors =
                                    Append(@, [action |-> "updating",
                                               name |-> entry.source.name])]
              /\ Goto(LoopNext(ok, item, Len(patterns_plan.to_update),
                               "update_pattern",
                               NextStage("update_pattern", dry_run,
                                         patterns_plan, profiles_plan)))
    /\ UNCHANGED <<direct, printed, earlier, inputs, returned, source_patterns, source_profiles,
                   tenants_to_sync, global_report, patterns_plan,
                   profiles_plan, all_source_patterns, pattern_id_mapping,
                   profile_id_mapping>>

\* line 556: the result (dest_patterns) is not read again
ReloadDestPatterns ==
    /\ pc = "reload_patterns"
    /\ \E ok \in Outcomes :
          /\ calls' = Append(calls, ListCall(Dest.name, Dest.token, "pattern",
                                             TRUE, 556, ok))
          /\ Count(ok)
          /\ IF ok
             THEN /\ Goto(NextStage("reload_patterns", dry_run, patterns_plan,
                                    profiles_plan))
                  /\ UNCHANGED global_report
             ELSE /\ global_report' = ErrorEntry(global_report, Dest.name)
                  /\ Goto("next")
    /\ UNCHANGED <<direct, printed, earlier, store, inputs, returned, source_patterns, source_profiles,
                   tenants_to_sync, patterns_plan, profiles_plan, report,
                   all_source_patterns, pattern_id_mapping, profile_id_mapping>>

\* the listings of the pattern identity map left at the default
\* custom_only=True
AllPatterns_custom(token) == get_data_patterns(token, TRUE)

\* lines 563-564: the listings the pattern identity map is built from,
\* custom_only=False
AllPatterns(token) == get_data_patterns(token, FALSE)

\* line 563: a list call to the source, inside the destination's try
ListAllSourcePatterns ==
    /\ pc = "all_source_patterns"
    /\ \E ok \in Outcomes :
          /\ calls' = Append(calls, ListCall(Dest.name, "Source", "pattern",
                                             FALSE, 563, ok))
          /\ Count(ok)
          /\ IF ok
             THEN /\ all_source_patterns' = AllPatterns("Source")
                  /\ Goto(NextStage("all_source_patterns", dry_run,
                                    patterns_plan, profiles_plan))
                  /\ UNCHANGED global_report
             ELSE /\ global_report' = ErrorEntry(global_report, Dest.name)
                  /\ Goto("next")
                  /\ UNCHANGED all_source_patterns
    /\ UNCHANGED <<direct, printed, earlier, store, inputs, returned, source_patterns, source_profiles,
                   tenants_to_sync, patterns_plan, profiles_plan, report,
                   pattern_id_mapping, profile_id_mapping>>

\* lines 564-566
ListAllDestPatterns ==
    /\ pc = "all_dest_patterns"
    /\ \E ok \in Outcomes :
          /\ calls' = Append(calls, ListCall(Dest.name, Dest.token, "pattern",
                                             FALSE, 564, ok))
          /\ Count(ok)
          /\ IF ok
             THEN /\ pattern_id_mapping' =
                        _build_pattern_id_mapping(all_source_patterns,
                                                  AllPatterns(Dest.token))
                  /\ Goto(NextStage("all_dest_patterns", dry_run,
                                    patterns_plan, profiles_plan))
                  /\ UNCHANGED global_report
             ELSE /\ global_report' = ErrorEntry(global_report, Dest.name)
                  /\ Goto("next")
                  /\ UNCHANGED pattern_id_mapping
    /\ UNCHANGED <<direct, printed, earlier, store, inputs, returned, source_patterns, source_profiles,
                   tenants_to_sync, patterns_plan, profiles_plan, report,
                   all_source_patterns, profile_id_mapping>>

\* lines 569-607
ListDestProfiles ==
    /\ pc = "dest_profiles"
    /\ \E ok \in Outcomes :
          /\ calls' = Append(calls, ListCall(Dest.name, Dest.token, "profile",
                                             TRUE, 569, ok))
          /\ Count(ok)
          /\ IF ok
             THEN LET dest_profiles == get_data_profiles(Dest.token, TRUE)
                      fmap == _build_profile_id_mapping(source_profiles,
                                                        dest_profiles)
                      plan == compare_patterns(source_profiles, dest_profiles,
                                               pattern_id_mapping, fmap)
                      rep == [report EXCEPT
                                 !.profiles.to_create = Len(plan.to_create),
                                 !.profiles.to_update = Len(plan.to_update),
                                 !.profiles.identical = Len(plan.identical)]
                      nxt == NextStage("dest_profiles", dry_run,
                                       patterns_plan, plan)
                  IN  /\ profile_id_mapping' = fmap
                      /\ profiles_plan' = plan
                      /\ source_profiles' =
                            compare_patterns_source(source_profiles,
                                dest_profiles, pattern_id_mapping, fmap)
                      /\ report' = rep
                      /\ global_report' =
                            IF nxt = "next"
                            THEN ReportEntry(global_report, Dest.name, rep)
                            ELSE global_report
                      /\ Goto(nxt)
             ELSE /\ global_report' = ErrorEntry(global_report, Dest.name)
                  /\ Goto("next")
                  /\ UNCHANGED <<profile_id_mapping, profiles_plan, report,
                                 source_profiles>>
    /\ UNCHANGED <<direct, printed, earlier, store, inputs, returned, source_patterns,
                   tenants_to_sync, patterns_plan, all_source_patterns,
                   pattern_id_mapping>>

\* lines 617-625, one iteration
CreateProfile ==
    /\ pc = "create_profile"
    /\ \E ok \in Outcomes :
          LET profile == profiles_plan.to_create[item]
              payload == create_profile(profile, pattern_id_mapping,
                                        profile_id_mapping)
          IN  /\ calls' = Append(calls, CreateCall(Dest.name, Dest.token,
                                     "profile", profile.name, payload, 619, ok))
              /\ Count(ok)
              /\ store' = IF ok
                          THEN [store EXCEPT ![Dest.token].profile =
                                    StoreCreate(@, payload.dataProfile)]
                          ELSE store
              /\ report' = IF ok
                           THEN [report EXCEPT !.profiles.created =
                                                  Append(@, profile.name)]
                           ELSE [report EXCEPT !.profiles.errors =
                                    Append(@, [action |-> "creating",
                                               name |-> profile.name])]
              /\ source_profiles' =
                    SourceListAfter(source_profiles, profile.name,
                        write_profile_source(profile, pattern_id_mapping,
                                             profile_id_mapping))
              /\ Goto(LoopNext(ok, item, Len(profiles_plan.to_create),
                               "create_profile",
                               NextStage("create_profile", dry_run,
                                         patterns_plan, profiles_plan)))
    /\ UNCHANGED <<direct, printed, earlier, inputs, returned, source_patterns,
                   tenants_to_sync, global_report, patterns_plan,
                   profiles_plan, all_source_patterns, pattern_id_mapping,
                   profile_id_mapping>>

\* lines 630-639, one iteration
UpdateProfile ==
    /\ pc = "update_profile"
    /\ \E ok \in Outcomes :
          LET entry == profiles_plan.to_update[item]
              dest_id == UpdateTargetId(entry)
              payload == update_profile(entry.source, pattern_id_mapping,
                                        profile_id_mapping)
          IN  /\ calls' = Append(calls, UpdateCall(Dest.name, Dest.token,
                                     "profile", entry.source.name, dest_id,
                                     payload, 633, ok))
              /\ Count(ok)
              /\ store' = IF ok
                          THEN [store EXCEPT ![Dest.token].profile =
                                    StoreUpdate(@, dest_id, payload.dataProfile)]
                          ELSE store
              /\ report' = IF ok
                           THEN [report EXCEPT !.profiles.updated =
                                                  Append(@, entry.source.name)]
                           ELSE [report EXCEPT !.profiles.errors =
                                    Append(@, [action |-> "updating",
                                               name |-> entry.source.name])]
              /\ source_profiles' =
                    SourceListAfter(source_profiles, entry.source.name,
                        write_profile_source(entry.source, pattern_id_mapping,
                                             profile_id_mapping))
              /\ Goto(LoopNext(ok, item, Len(profiles_plan.to_update),
                               "update_profile",
                               NextStage("update_profile", dry_run,
                                         patterns_plan, profiles_plan)))
    /\ UNCHANGED <<direct, printed, earlier, inputs, returned, source_patterns,
                   tenants_to_sync, global_report, patterns_plan,
                   profiles_plan, all_source_patterns, pattern_id_mapping,
                   profile_id_mapping>>

\* lines 641-645
FinishDest ==
    /\ pc = "dest_done"
    /\ global_report' = ReportEntry(global_report, Dest.name, report)
    /\ Goto("next")
    /\ UNCHANGED <<direct, printed, earlier, store, inputs, returned, source_patterns, source_profiles,
                   tenants_to_sync, patterns_plan, profiles_plan, report,
                   all_source_patterns, pattern_id_mapping, profile_id_mapping,
                   calls, failures>>

\* lines 655-672
Summary ==
    /\ pc = "summary"
    /\ pc' = "done"
    /\ returned' = "report"
    /\ UNCHANGED <<direct, printed, earlier, store, inputs, locals, calls, failures>>

Next ==
    \/ FetchSourcePatterns
    \/ FetchSourceProfiles
    \/ Select
    \/ ListDestPatterns
    \/ CreatePattern
    \/ UpdatePattern
    \/ ReloadDestPatterns
    \/ ListAllSourcePatterns
    \/ ListAllDestPatterns
    \/ ListDestProfiles
    \/ CreateProfile
    \/ UpdateProfile
    \/ FinishDest
    \/ Summary

Spec == Init /\ [][Next]_vars

(***************************************************************************)
(* Construction: __init__ authenticates the source, then every destination *)
(* of dest_creds_list, and sync runs on the object that results.           *)
(***************************************************************************)
\* the argument of __init__: the destinations' credentials, by name
dest_creds_list == <<"Prod", "Dev">>

\* lines 48-67: the token request; it raises unless the status is 200
AuthCall(env, line, ok) ==
    [op |-> "auth", during |-> "__init__", env |-> env, kind |-> "token",
     line |-> line, ok |-> ok]

\* the loop body without its try / except: the destination is appended
\* whatever the token request did
Connected_always(dests, name, ok) ==
    Append(dests, [name |-> name, token |-> name])

\* lines 33-42: the destination joins self.destinations when its token
\* request succeeded, and is left out when it raised
Connected(dests, name, ok) ==
    IF ok THEN Append(dests, [name |-> name, token |-> name]) ELSE dests

\* line 42
ConnectionError(name) == [message |-> "Connection error", name |-> name]

\* line 28: outside any try, a failure leaves __init__ by the exception
AuthenticateSource ==
    /\ pc = "auth_source"
    /\ \E ok \in BOOLEAN :
          /\ calls' = Append(calls, AuthCall("Source", 28, ok))
          /\ pc' = IF ~ok THEN "raised"
                   ELSE IF dest_creds_list = << >> THEN "source_patterns"
                   ELSE "auth_dest"
    /\ d' = 1
    /\ UNCHANGED <<direct, printed, earlier, store, inputs, returned, source_patterns,
                   source_profiles, tenants_to_sync, global_report, item,
                   patterns_plan, profiles_plan, report, all_source_patterns,
                   pattern_id_mapping, profile_id_mapping, failures>>

\* lines 32-42: one iteration of the loop over dest_creds_list, d its position
AuthenticateDestination ==
    /\ pc = "auth_dest"
    /\ \E ok \in BOOLEAN :
          /\ calls' = Append(calls, AuthCall(dest_creds_list[d], 34, ok))
          /\ destinations' = Connected(destinations, dest_creds_list[d], ok)
          /\ printed' = IF ok THEN printed
                        ELSE Append(printed, ConnectionError(dest_creds_list[d]))
    /\ pc' = IF d < Len(dest_creds_list) THEN "auth_dest" ELSE "source_patterns"
    /\ d' = IF d < Len(dest_creds_list) THEN d + 1 ELSE 1
    /\ UNCHANGED <<direct, earlier, store, dry_run, target_tenants, returned,
                   source_patterns, source_profiles, tenants_to_sync,
                   global_report, item, patterns_plan, profiles_plan, report,
                   all_source_patterns, pattern_id_mapping, profile_id_mapping,
                   failures>>

\* the state before __init__ runs
AuthInit ==
    /\ \E op \in DestOptions("Prod"), od \in DestOptions("Dev") :
          store = [t \in Tenants |->
                      IF t = "Source" THEN SourceStore
                      ELSE DestStore(t, IF t = "Prod" THEN op ELSE od)]
    /\ destinations = << >>
    /\ dry_run \in BOOLEAN
    /\ target_tenants \in TargetChoices
    /\ pc = "auth_source"
    /\ returned = "pending"
    /\ source_patterns = << >>
    /\ source_profiles = << >>
    /\ tenants_to_sync = << >>
    /\ global_report = [tenants |-> << >>]
    /\ d = 1
    /\ item = 1
    /\ patterns_plan = EmptyPlan
    /\ profiles_plan = EmptyPlan
    /\ report = [patterns |-> EmptyCounts, profiles |-> EmptyCounts]
    /\ all_source_patterns = << >>
    /\ pattern_id_mapping = << >>
    /\ profile_id_mapping = << >>
    /\ calls = << >>
    /\ failures = 0
    /\ call_args = [fn |-> "sync"]
    /\ call_result = [done |-> FALSE]
    /\ printed = << >>
    /\ earlier = << >>

AuthNext ==
    \/ AuthenticateSource
    \/ AuthenticateDestination
    \/ Next

AuthSpec == AuthInit /\ [][AuthNext]_vars

(***************************************************************************)
(* sync called again on the same object, as the interactive mode does      *)
(* (lines 775-782): every call starts from fresh locals and lists both     *)
(* ends anew.                                                              *)
(***************************************************************************)
\* the number of calls of sync on one object
MaxRuns == 2

\* line 431: the next call of sync, once the previous one has returned; the
\* calls that follow the first one are analyses (dry_run=True) of the same
\* targets
SyncAgain ==
    /\ pc = "done"
    /\ Len(earlier) + 1 < MaxRuns
    /\ earlier' = Append(earlier, [dry_run |-> dry_run,
                                   returned |-> returned,
                                   calls |-> calls,
                                   report |-> global_report])
    /\ dry_run' = TRUE
    /\ pc' = "source_patterns"
    /\ returned' = "pending"
    /\ source_patterns' = << >>
    /\ source_profiles' = << >>
    /\ tenants_to_sync' = << >>
    /\ global_report' = [tenants |-> << >>]
    /\ d' = 1
    /\ item' = 1
    /\ patterns_plan' = EmptyPlan
    /\ profiles_plan' = EmptyPlan
    /\ report' = [patterns |-> EmptyCounts, profiles |-> EmptyCounts]
    /\ all_source_patterns' = << >>
    /\ pattern_id_mapping' = << >>
    /\ profile_id_mapping' = << >>
    /\ calls' = << >>
    /\ UNCHANGED <<direct, printed, store, destinations, target_tenants,
                   failures>>

AgainNext ==
    \/ Next
    \/ SyncAgain

AgainSpec == Init /\ [][AgainNext]_vars


(***************************************************************************)
(* The methods called on their own.  The arguments are drawn from the      *)
(* bounded sets below; one step applies the method named by call_args.fn   *)
(* to them.                                                                *)
(***************************************************************************)
\* depth of the expression trees handed to the rewriter
MaxDepth == 2

Rev(s) == [i \in DOMAIN s |-> s[Len(s) + 1 - i]]

\* the keys that hold a list of dicts, a dict, and a list of scalars
DictListKeys == {"detection_rules", "sub_expressions",
                 "advance_data_patterns_rules", "conditions", "rule_items"}
DictKeys == {"expression_tree", "rule_item", "multi_profile"}
ScalarListKeys == {"data_profile_ids"}
ListKeys == DictListKeys \cup ScalarListKeys

\* the dicts a service may decorate, named by the key that leads to them
LevelPlaces == {"top", "detection_rules", "sub_expressions", "rule_item",
                "rule_items", "conditions"}

NoEdit == [rev |-> {}, strip |-> FALSE, places |-> {}, levels |-> << >>]

\* an entity as another tenant may serve it: the lists under the keys of
\* f.rev reversed, supported_confidence_levels removed everywhere (f.strip)
\* and set to f.levels in the dicts reached through the keys of f.places
RECURSIVE Edit(_, _, _)
Edit(node, via, f) ==
    LET kept == IF f.strip THEN (DOMAIN node) \ {"supported_confidence_levels"}
                ELSE DOMAIN node
        keys == IF via \in f.places
                THEN kept \cup {"supported_confidence_levels"} ELSE kept
        Elems(k) == [i \in DOMAIN node[k] |-> Edit(node[k][i], k, f)]
    IN  [k \in keys |->
            IF k = "supported_confidence_levels" /\ via \in f.places
            THEN f.levels
            ELSE IF k \in DictListKeys
                 THEN (IF k \in f.rev THEN Rev(Elems(k)) ELSE Elems(k))
                 ELSE IF k \in DictKeys THEN Edit(node[k], k, f)
                 ELSE IF k \in ScalarListKeys /\ k \in f.rev THEN Rev(node[k])
                 ELSE node[k]]

\* the entity named R: a simple rule over the patterns a, p and b, a
\* granular rule over the profiles x and q, two advance rules
ProfileR(id, a, b, p, x, q, version) ==
    [id |-> id, name |-> "R", profile_type |-> "custom", version |-> version,
     detection_rules |->
        << [rule_type |-> "simple",
            expression_tree |->
               [operator |-> "and",
                sub_expressions |->
                   << Leaf(a),
                      [operator |-> "or",
                       sub_expressions |-> << Leaf(p), Leaf(b) >>] >>]],
           [rule_type |-> "multi_profile",
            multi_profile |-> [data_profile_ids |-> << x, q >>]] >>,
     advance_data_patterns_rules |->
        << [conditions |-> << [rule_items |-> << [id |-> b], [id |-> a] >>],
                              [rule_items |-> << [id |-> p] >>] >>],
           [conditions |-> << [rule_items |-> << [id |-> a] >>] >>] >>]

\* the metadata a tenant attaches to what it serves (lines 14-17)
Stamp(entity, t) ==
    [k \in (DOMAIN entity) \cup {"created_at", "updated_by", "tenant_id"} |->
        IF k \in {"created_at", "updated_by", "tenant_id"} THEN t
        ELSE entity[k]]

(***************************************************************************)
(* Arguments of compare_patterns (257-316)                                 *)
(***************************************************************************)
\* how the IDs of the destination relate to the source's: by how much the
\* pattern IDs (p) and the profile IDs (f) are shifted
IdSpaces == { [p |-> 0, f |-> 0], [p |-> 1, f |-> 1], [p |-> 0, f |-> 1] }

\* {source id: destination id} of a destination whose IDs are shifted by s
ShiftMap(ids, s) == IF s = 0 THEN << >> ELSE [i \in ids |-> i + s]

SourceR(levels) ==
    LET r == ProfileR(10, 1, 2, 3, 12, 30, 1)
    IN  IF levels
        THEN Edit(r, "top", [NoEdit EXCEPT !.places = LevelPlaces,
                                           !.levels = << "low" >>])
        ELSE r

\* what a destination may have done to the lists and to the
\* supported_confidence_levels of an entity it holds
ServedEdits ==
    { [NoEdit EXCEPT !.rev = w] : w \in SUBSET ListKeys }
    \cup { [rev |-> w, strip |-> s, places |-> pl, levels |-> lv] :
              w \in {{}, ListKeys}, s \in BOOLEAN,
              pl \in {{}, {"top"}, {"rule_item", "rule_items"}, LevelPlaces},
              lv \in {<< "high" >>, << "low", "high" >>} }

\* R as the destination holds it: the same configuration in the
\* destination's IDs, served with the edit e
DestR(levels, ids, e) ==
    LET r == ProfileR(10 + ids.f, 1 + ids.p, 2 + ids.p, 3 + ids.p,
                      12 + ids.f, 30 + ids.f, 7)
        l == IF levels
             THEN Edit(r, "top", [NoEdit EXCEPT !.places = LevelPlaces,
                                                !.levels = << "low" >>])
             ELSE r
    IN  Stamp(Edit(l, "top", e), "dest")

\* R with another configuration
DestROther(levels, ids, how) ==
    LET r == DestR(levels, ids, NoEdit)
    IN  IF how = "rules" THEN [r EXCEPT !.detection_rules = << >>]
        ELSE IF how = "type" THEN [r EXCEPT !.profile_type = "other"]
        ELSE ProfileR(10 + ids.f, 2 + ids.p, 2 + ids.p, 3 + ids.p,
                      12 + ids.f, 30 + ids.f, 7)

DestRChoices(levels, ids) ==
    { << >> }
    \cup { << DestR(levels, ids, e) >> : e \in ServedEdits }
    \cup { << DestROther(levels, ids, h) >> : h \in {"rules", "type", "ref"} }

ProfileCompareCases ==
    { [fn |-> "compare_patterns",
       source_patterns |-> c.before \o << SourceR(c.levels) >> \o c.after,
       dest_patterns |-> c.others \o c.r,
       pattern_id_mapping |-> ShiftMap({1, 2, 3}, c.ids.p),
       profile_id_mapping |-> ShiftMap({10, 12, 30}, c.ids.f)] :
      c \in UNION { [levels : {lv}, ids : {ids},
                     before : { << >>, << PlainProfile(13, "S", "custom") >> },
                     after : { << >>, << PlainProfile(14, "T", "custom") >> },
                     others : { << >>,
                                << PlainProfile(19 + ids.f, "W", "custom") >>,
                                << PlainProfile(14 + ids.f, "T", "custom") >> },
                     r : DestRChoices(lv, ids)] :
                    lv \in BOOLEAN, ids \in IdSpaces } }

\* patterns: no references, no maps (line 482)
DestPatternChoices(name, id, regex) ==
    { << >>,
      << Stamp(Pattern(id + 5, name, "custom", regex), "dest") >>,
      << [Pattern(id, name, "custom", regex) EXCEPT !.version = 3] >>,
      << Edit(Pattern(id, name, "custom", regex), "top",
              [NoEdit EXCEPT !.places = {"top"}, !.levels = << "high" >>]) >>,
      << Pattern(id, name, "custom", "other") >> }

PatternCompareCases ==
    { [fn |-> "compare_patterns",
       source_patterns |-> src,
       dest_patterns |-> z \o a \o b,
       pattern_id_mapping |-> << >>,
       profile_id_mapping |-> << >>] :
      src \in { << Pattern(1, "A", "custom", "a") >>,
                << Pattern(1, "A", "custom", "a"), Pattern(2, "B", "custom", "b") >>,
                << Pattern(2, "B", "custom", "b"), Pattern(1, "A", "custom", "a") >> },
      z \in { << >>, << Pattern(9, "Z", "custom", "z") >> },
      a \in DestPatternChoices("A", 1, "a"),
      b \in DestPatternChoices("B", 2, "b") }

CompareCases == ProfileCompareCases \cup PatternCompareCases

(***************************************************************************)
(* Arguments of _normalize_pattern (128-138)                               *)
(***************************************************************************)
\* the names a tenant may give to the metadata of an entity
StampNames ==
    {"id", "created_at", "created_by", "updated_at",
     "updated_by", "version", "tenant", "tenant_id"}

\* the entity with the metadata fields of `names`
Stamped(entity, names) ==
    [k \in (DOMAIN entity) \cup names |->
        IF k \in names THEN << "stamp", k >> ELSE entity[k]]

\* entities without metadata; the second and the third have nested keys
\* named like metadata
Bodies ==
    { [name |-> "A", type |-> "custom", regex |-> "a"],
      [name |-> "B", type |-> "custom",
       detail |-> [id |-> 5, version |-> 2, tenant |-> "t"]],
      [k \in (DOMAIN ProfileR(10, 1, 2, 3, 12, 30, 1)) \ StampNames |->
          ProfileR(10, 1, 2, 3, 12, 30, 1)[k]] }

NormalizeCases ==
    { [fn |-> "_normalize_pattern", pattern |-> Stamped(b, names)] :
        b \in Bodies, names \in SUBSET StampNames }

(***************************************************************************)
(* Arguments of _remap_pattern_ids (140-181), create_profile (340-371)     *)
(* and update_profile (397-429)                                            *)
(***************************************************************************)
\* the pattern IDs a profile may refer to; no map has the last as a key
PatternIds == {1, 2, 3, 4}

NextId(k) == IF k = 4 THEN 1 ELSE k + 1

Shapes == {"left", "right", "full", "item"}

\* an expression tree of the given depth over the IDs from k on
RECURSIVE TreeOf(_, _, _)
TreeOf(depth, k, shape) ==
    IF depth = 0 THEN Leaf(k)
    ELSE LET sub == TreeOf(depth - 1, NextId(k), shape)
         IN  IF shape = "left"
             THEN [operator |-> "and", sub_expressions |-> << sub, Leaf(k) >>]
             ELSE IF shape = "right"
             THEN [operator |-> "or", sub_expressions |-> << Leaf(k), sub >>]
             ELSE IF shape = "full"
             THEN [operator |-> "and",
                   sub_expressions |-> << sub, TreeOf(depth - 1, k, shape) >>]
             ELSE [rule_item |-> [id |-> k, name |-> "item"],
                   sub_expressions |-> << sub >>]

\* trees without a reference where one may be
OddTrees ==
    { [operator |-> "and"],
      [operator |-> "and", sub_expressions |-> << >>],
      [rule_item |-> [name |-> "item"],
       sub_expressions |-> << Leaf(1), [operator |-> "or"] >>] }

\* advance_data_patterns_rules over the IDs from k on
AdvanceRules(k) ==
    { << >>,
      << [conditions |->
             << [rule_items |-> << [id |-> k],
                                   [id |-> NextId(k), name |-> "item"] >>],
                [rule_items |-> << >>] >>],
         [conditions |-> << [rule_items |-> << [id |-> NextId(NextId(k))] >>] >>] >>,
      << [name |-> "rule"],
         [conditions |-> << [operator |-> "or"],
                            [rule_items |-> << [name |-> "item"], [id |-> k] >>] >>] >> }

\* detection rules without a tree
OtherRules ==
    { << >>,
      << [rule_type |-> "multi_profile",
          multi_profile |-> [data_profile_ids |-> << 1, 2 >>]] >>,
      << [rule_type |-> "simple"] >> }

ProfileOver(tree, adv, other) ==
    [name |-> "X", profile_type |-> "custom",
     detection_rules |->
        << [rule_type |-> "simple", expression_tree |-> tree] >> \o other,
     advance_data_patterns_rules |-> adv]

\* {source id: destination id}: the keys are mapped to 7, or to each other
PatternMaps ==
    { [i \in S |-> 7] : S \in SUBSET {1, 2, 3} }
    \cup { [i \in {1, 2} |-> i + 1], [i \in {1, 2} |-> 3 - i],
           [i \in {1, 2, 3} |-> i] }

RemapPatternCases ==
    { [fn |-> "_remap_pattern_ids", profile |-> p, pattern_id_mapping |-> m] :
        p \in { ProfileOver(TreeOf(c.n, c.k, c.sh), c.adv, c.other) :
                 c \in UNION { [n : 0..MaxDepth, k : {k}, sh : Shapes,
                                adv : AdvanceRules(k), other : OtherRules] :
                               k \in PatternIds } }
              \cup { ProfileOver(t, << >>, << >>) : t \in OddTrees }
              \cup { [name |-> "X"],
                     [name |-> "X", detection_rules |-> << >>] },
        m \in PatternMaps }

\* {source id: destination id} for profiles
ProfileMaps == { << >>, [i \in {1} |-> 2], [i \in {1, 2} |-> i + 20] }

WriteProfileCases ==
    { [fn |-> f,
       profile |-> Stamped(ProfileOver(TreeOf(c.n, c.k, "right"), c.adv, c.other),
                           {"id", "version", "tenant_id"}),
       pattern_id_mapping |-> c.pmap,
       profile_id_mapping |-> c.fmap] :
        f \in {"create_profile", "update_profile"},
        c \in UNION { [n : 0..MaxDepth, k : {k}, adv : AdvanceRules(k),
                       other : OtherRules, pmap : PatternMaps,
                       fmap : ProfileMaps] : k \in {1, 4} } }

(***************************************************************************)
(* Arguments of _remap_profile_ids (229-255)                               *)
(***************************************************************************)
IdLists ==
    { << >>, << 10 >>, << 30 >>, << 10, 30 >>, << 30, 10 >>, << 10, 10 >>,
      << 11, 10, 30 >> }

\* a detection rule that holds the profile IDs `ids`: under the key
\* multi_profile (lines 247-248), directly on the rule, under another
\* rule_type, without rule_type
RuleWith(ids, how) ==
    IF how = "nested"
    THEN [rule_type |-> "multi_profile",
          multi_profile |-> [data_profile_ids |-> ids]]
    ELSE IF how = "nested+"
    THEN [rule_type |-> "multi_profile",
          multi_profile |-> [data_profile_ids |-> ids, operator |-> "or"]]
    ELSE IF how = "flat"
    THEN [rule_type |-> "multi_profile", data_profile_ids |-> ids]
    ELSE IF how = "simple"
    THEN [rule_type |-> "simple",
          multi_profile |-> [data_profile_ids |-> ids]]
    ELSE [multi_profile |-> [data_profile_ids |-> ids]]

RuleKinds == {"nested", "nested+", "flat", "simple", "untyped"}

\* a simple rule over the pattern whose ID is 10
TreeRule == [rule_type |-> "simple", expression_tree |-> Leaf(10)]

GranularMaps ==
    { << >>, [i \in {10} |-> 11], [i \in {10, 11} |-> i + 1],
      [i \in {10, 11} |-> i + 40], [i \in {10, 11} |-> 21 - i] }

RemapProfileCases ==
    { [fn |-> "_remap_profile_ids",
       profile |-> [name |-> "Y", profile_type |-> "custom",
                    detection_rules |-> << RuleWith(ids, how) >> \o more,
                    advance_data_patterns_rules |->
                       << [conditions |->
                              << [rule_items |-> << [id |-> 10] >>] >>] >>],
       profile_id_mapping |-> m] :
        ids \in IdLists, how \in RuleKinds,
        more \in { << >>, << TreeRule >>, << RuleWith(<< 10, 30 >>, "nested") >> },
        m \in GranularMaps }
    \cup { [fn |-> "_remap_profile_ids", profile |-> p,
            profile_id_mapping |-> m] :
             p \in { [name |-> "Y"],
                     [name |-> "Y", detection_rules |-> << >>],
                     [name |-> "Y", detection_rules |->
                         << [rule_type |-> "multi_profile"] >>] },
             m \in GranularMaps }

(***************************************************************************)
(* Arguments of _build_pattern_id_mapping and _build_profile_id_mapping    *)
(* (183-227)                                                               *)
(***************************************************************************)
\* the IDs the source and a destination give to the names; the ID spaces
\* overlap, and the destination's Z has the ID of the source's A
SourceIdOf(name) == IF name = "A" THEN 1 ELSE IF name = "B" THEN 2 ELSE 3

DestIdOf(name) ==
    IF name = "A" THEN 2 ELSE IF name = "B" THEN 3
    ELSE IF name = "C" THEN 7 ELSE 1

\* the entities of the names, in the order of `order`
ListOf(kind, names, order, side) ==
    LET chosen == SelectSeq(order, LAMBDA n : n \in names)
        IdOf(n) == IF side = "source" THEN SourceIdOf(n) ELSE DestIdOf(n)
    IN  [i \in DOMAIN chosen |->
            IF kind = "pattern"
            THEN Pattern(IdOf(chosen[i]), chosen[i],
                         IF chosen[i] = "C" THEN "predefined" ELSE "custom",
                         "r")
            ELSE PlainProfile(IdOf(chosen[i]), chosen[i], "custom")]

Orders == { << "A", "B", "C", "Z" >>, << "Z", "C", "B", "A" >> }

BuildMapCases ==
    { [fn |-> "_build_pattern_id_mapping",
       source_patterns |-> ListOf("pattern", s, o1, "source"),
       dest_patterns |-> ListOf("pattern", t, o2, "dest")] :
        s \in SUBSET {"A", "B", "C"}, t \in SUBSET {"A", "B", "C", "Z"},
        o1 \in Orders, o2 \in Orders }
    \cup
    { [fn |-> "_build_profile_id_mapping",
       source_profiles |-> ListOf("profile", s, o1, "source"),
       dest_profiles |-> ListOf("profile", t, o2, "dest")] :
        s \in SUBSET {"A", "B", "C"}, t \in SUBSET {"A", "B", "C", "Z"},
        o1 \in Orders, o2 \in Orders }

(***************************************************************************)
(* One direct call                                                         *)
(***************************************************************************)
CallCases ==
    CompareCases \cup NormalizeCases \cup RemapPatternCases
    \cup WriteProfileCases \cup RemapProfileCases
    \cup BuildMapCases

\* an object whose sync is not running
CallInit ==
    /\ call_args \in CallCases
    /\ call_result = [done |-> FALSE]
    /\ store = [t \in Tenants |-> [pattern |-> << >>, profile |-> << >>]]
    /\ destinations = << >>
    /\ dry_run = TRUE
    /\ target_tenants = [given |-> FALSE, names |-> {}]
    /\ pc = "idle"
    /\ returned = "pending"
    /\ source_patterns = << >>
    /\ source_profiles = << >>
    /\ tenants_to_sync = << >>
    /\ global_report = [tenants |-> << >>]
    /\ d = 1
    /\ item = 1
    /\ patterns_plan = EmptyPlan
    /\ profiles_plan = EmptyPlan
    /\ report = [patterns |-> EmptyCounts, profiles |-> EmptyCounts]
    /\ all_source_patterns = << >>
    /\ pattern_id_mapping = << >>
    /\ profile_id_mapping = << >>
    /\ calls = << >>
    /\ failures = 0
    /\ printed = << >>
    /\ earlier = << >>

Calling(fn) == call_args.fn = fn /\ ~call_result.done

Returned(fn) == call_args.fn = fn /\ call_result.done

Return(value) == call_result' = [done |-> TRUE, value |-> value]

sync_idle == <<store, inputs, pc, returned, locals, calls, failures, printed,
               earlier>>

Call_compare_patterns ==
    /\ Calling("compare_patterns")
    /\ Return(compare_patterns(call_args.source_patterns,
                               call_args.dest_patterns,
                               call_args.pattern_id_mapping,
                               call_args.profile_id_mapping))
    /\ call_args' = [call_args EXCEPT !.source_patterns =
                        compare_patterns_source(@, call_args.dest_patterns,
                                                call_args.pattern_id_mapping,
                                                call_args.profile_id_mapping)]
    /\ UNCHANGED sync_idle

Call_normalize_pattern ==
    /\ Calling("_normalize_pattern")
    /\ Return(_normalize_pattern(call_args.pattern))
    /\ call_args' = [call_args EXCEPT !.pattern = ArgAfter_normalize_pattern(@)]
    /\ UNCHANGED sync_idle

Call_remap_pattern_ids ==
    /\ Calling("_remap_pattern_ids")
    /\ Return(_remap_pattern_ids(call_args.profile,
                                 call_args.pattern_id_mapping))
    /\ call_args' = [call_args EXCEPT !.profile =
                        ArgAfter_remap_pattern_ids(@,
                            call_args.pattern_id_mapping)]
    /\ UNCHANGED sync_idle

\* the body of the request, as the call's result
Call_create_profile ==
    /\ Calling("create_profile")
    /\ Return(create_profile(call_args.profile, call_args.pattern_id_mapping,
                             call_args.profile_id_mapping))
    /\ call_args' = [call_args EXCEPT !.profile =
                        write_profile_source(@, call_args.pattern_id_mapping,
                                             call_args.profile_id_mapping)]
    /\ UNCHANGED sync_idle

Call_update_profile ==
    /\ Calling("update_profile")
    /\ Return(update_profile(call_args.profile, call_args.pattern_id_mapping,
                             call_args.profile_id_mapping))
    /\ call_args' = [call_args EXCEPT !.profile =
                        write_profile_source(@, call_args.pattern_id_mapping,
                                             call_args.profile_id_mapping)]
    /\ UNCHANGED sync_idle

Call_remap_profile_ids ==
    /\ Calling("_remap_profile_ids")
    /\ Return(_remap_profile_ids(call_args.profile,
                                 call_args.profile_id_mapping))
    /\ call_args' = [call_args EXCEPT !.profile =
                        ArgAfter_remap_profile_ids(@,
                            call_args.profile_id_mapping)]
    /\ UNCHANGED sync_idle

Call_build_pattern_id_mapping ==
    /\ Calling("_build_pattern_id_mapping")
    /\ Return(_build_pattern_id_mapping(call_args.source_patterns,
                                        call_args.dest_patterns))
    /\ UNCHANGED <<call_args, sync_idle>>

Call_build_profile_id_mapping ==
    /\ Calling("_build_profile_id_mapping")
    /\ Return(_build_profile_id_mapping(call_args.source_profiles,
                                        call_args.dest_profiles))
    /\ UNCHANGED <<call_args, sync_idle>>

CallNext ==
    \/ Call_compare_patterns
    \/ Call_normalize_pattern
    \/ Call_remap_pattern_ids
    \/ Call_create_profile
    \/ Call_update_profile
    \/ Call_remap_profile_ids
    \/ Call_build_pattern_id_mapping
    \/ Call_build_profile_id_mapping

CallSpec == CallInit /\ [][CallNext]_vars


(***************************************************************************)
(* Vocabulary of the properties                                            *)
(***************************************************************************)
Last(s) == s[Len(s)]

IsMutation(c) == c.op \in {"create", "update"}

\* the calls issued while destination dn was being processed
CallsDuring(dn) == SelectSeq(calls, LAMBDA c : c.during = dn)

\* the create / update calls of one kind issued while processing dn
Applied(dn, kind, op) ==
    SelectSeq(calls, LAMBDA c : c.during = dn /\ c.op = op /\ c.kind = kind)

NamesOf(cs) == [i \in DOMAIN cs |-> cs[i].name]

Succeeded(cs) == SelectSeq(cs, LAMBDA c : c.ok)

Failed(cs) == SelectSeq(cs, LAMBDA c : ~c.ok)

ErrorsOf(cs, action) ==
    [i \in DOMAIN Failed(cs) |-> [action |-> action, name |-> Failed(cs)[i].name]]

IsErrorEntry(e) == Has(e, "error")

SelectedNames == {tenants_to_sync[i].name : i \in DOMAIN tenants_to_sync}

InDest == pc \in {"dest_patterns", "create_pattern", "update_pattern",
                  "reload_patterns", "all_source_patterns",
                  "all_dest_patterns", "dest_profiles", "create_profile",
                  "update_profile", "dest_done"}

PatternsApplied == pc \in {"reload_patterns", "all_source_patterns",
                           "all_dest_patterns", "dest_profiles",
                           "create_profile", "update_profile", "dest_done"}

(***************************************************************************)
(* C1  Dry run: in a run of sync with dry_run = TRUE, whatever the stores  *)
(* hold, whichever destinations are selected and whichever calls fail,     *)
(* every remote call issued is a list call: no create and no update call   *)
(* is issued, in the patterns phase or in the profiles phase, and no       *)
(* created / updated name is reported.                                     *)
(***************************************************************************)
C1_DryRunIssuesOnlyLists ==
    dry_run =>
        /\ \A i \in DOMAIN calls : calls[i].op = "list"
        /\ \A n \in DOMAIN global_report.tenants :
              LET e == global_report.tenants[n]
              IN  ~IsErrorEntry(e) =>
                     /\ e.patterns.created = << >> /\ e.patterns.updated = << >>
                     /\ e.profiles.created = << >> /\ e.profiles.updated = << >>

\* a finished dry run that had patterns and profiles to create and patterns
\* to update
C1_Witness ==
    /\ dry_run
    /\ pc = "done"
    /\ returned = "report"
    /\ \E n \in DOMAIN global_report.tenants :
          LET e == global_report.tenants[n]
          IN  /\ ~IsErrorEntry(e)
              /\ e.patterns.to_create > 0
              /\ e.profiles.to_create > 0
    /\ \E n \in DOMAIN global_report.tenants :
          LET e == global_report.tenants[n]
          IN  /\ ~IsErrorEntry(e)
              /\ e.patterns.to_update > 0

(***************************************************************************)
(* C2  Per-item isolation, in execute mode: a failed create or update call *)
(* does not stop the loops of its phase.  Once the pattern loops of a      *)
(* destination are over, every toCreate pattern has had its create call    *)
(* and every toUpdate pattern its update call, in plan order; every        *)
(* attempted item is in exactly one of created / updated (its call         *)
(* succeeded) or errors (its call failed); and a failed item call leaves   *)
(* sync inside the destination's iteration, so the profiles phase still    *)
(* runs.  The same holds of the profile loops.                             *)
(***************************************************************************)
Accounted(dn, kind, counts) ==
    /\ counts.created = NamesOf(Succeeded(Applied(dn, kind, "create")))
    /\ counts.updated = NamesOf(Succeeded(Applied(dn, kind, "update")))
    /\ counts.errors = ErrorsOf(Applied(dn, kind, "create"), "creating")
                          \o ErrorsOf(Applied(dn, kind, "update"), "updating")

AllAttempted(dn, kind, plan) ==
    /\ NamesOf(Applied(dn, kind, "create")) = NamesOf(plan.to_create)
    /\ NamesOf(Applied(dn, kind, "update")) =
          [i \in DOMAIN plan.to_update |-> plan.to_update[i].source.name]

C2_ItemFailureIsolated ==
    /\ (InDest /\ pc # "dest_patterns") =>
          /\ Accounted(Dest.name, "pattern", report.patterns)
          /\ Accounted(Dest.name, "profile", report.profiles)
    /\ (PatternsApplied /\ ~dry_run) =>
          AllAttempted(Dest.name, "pattern", patterns_plan)
    /\ pc = "dest_done" => AllAttempted(Dest.name, "profile", profiles_plan)
    /\ (calls # << >> /\ IsMutation(Last(calls)) /\ ~Last(calls).ok) =>
          IF Last(calls).during \in DOMAIN global_report.tenants
          THEN ~IsErrorEntry(global_report.tenants[Last(calls).during])
          ELSE InDest /\ Dest.name = Last(calls).during

\* the first of several pattern creates failed, a later one succeeded, and
\* the profiles phase of the same destination has created a profile
C2_Witness ==
    /\ pc = "dest_done"
    /\ Len(patterns_plan.to_create) >= 2
    /\ ~Applied(Dest.name, "pattern", "create")[1].ok
    /\ report.patterns.created # << >>
    /\ report.profiles.created # << >>

(***************************************************************************)
(* C3  Per-destination isolation: a list call that fails while destination *)
(* D is processed is recorded as the {error} entry of D and of no other    *)
(* destination; every selected destination is processed once and, when     *)
(* sync returns, has its own entry; the entry of a destination whose own   *)
(* list calls all succeeded is its report, with the outcome of its own     *)
(* create / update calls.                                                  *)
(***************************************************************************)
ListFailedDuring(dn) ==
    \E i \in DOMAIN calls :
        calls[i].during = dn /\ calls[i].op = "list" /\ ~calls[i].ok

C3_DestinationFailureIsolated ==
    /\ pc \notin {"source_patterns", "source_profiles", "select", "raised"} =>
          \A k \in DOMAIN tenants_to_sync :
              LET dn == tenants_to_sync[k].name
              IN  IF k < d
                  THEN /\ dn \in DOMAIN global_report.tenants
                       /\ CallsDuring(dn) # << >>
                       /\ IsErrorEntry(global_report.tenants[dn])
                             <=> ListFailedDuring(dn)
                       /\ ~IsErrorEntry(global_report.tenants[dn]) =>
                             /\ Accounted(dn, "pattern",
                                          global_report.tenants[dn].patterns)
                             /\ Accounted(dn, "profile",
                                          global_report.tenants[dn].profiles)
                  ELSE dn \notin DOMAIN global_report.tenants
    /\ (pc = "done" /\ returned = "report") =>
          /\ d = Len(tenants_to_sync) + 1
          /\ DOMAIN global_report.tenants = SelectedNames

\* the first destination failed on a list call, after which the second one
\* was processed, applied modifications and was reported
C3_Witness ==
    /\ pc = "done"
    /\ Len(tenants_to_sync) = 2
    /\ IsErrorEntry(global_report.tenants[tenants_to_sync[1].name])
    /\ ~IsErrorEntry(global_report.tenants[tenants_to_sync[2].name])
    /\ global_report.tenants[tenants_to_sync[2].name].patterns.updated # << >>

(***************************************************************************)
(* C4  Phase ordering: among the calls issued for one destination, the     *)
(* first pattern listing, every pattern create, every pattern update and   *)
(* the re-fetch of the patterns (lines 479, 532, 546, 556) come before the *)
(* listings from which the pattern identity map is built (563, 564),       *)
(* before the profile listing that is followed by the classification of    *)
(* the profiles (569) and before every profile create and update (619,     *)
(* 633); in execute mode the re-fetch has happened when the map is being   *)
(* built; and all calls of one destination come before all calls of the    *)
(* next destination in list order.                                         *)
(***************************************************************************)
PatternPhaseLines == {479, 532, 546, 556}

ProfilePhaseLines == {563, 564, 569, 619, 633}

DestIndex(dn) ==
    IF \E k \in DOMAIN tenants_to_sync : tenants_to_sync[k].name = dn
    THEN CHOOSE k \in DOMAIN tenants_to_sync : tenants_to_sync[k].name = dn
    ELSE 0

C4_PhaseOrdering ==
    /\ \A i, j \in DOMAIN calls :
          i < j =>
             /\ DestIndex(calls[i].during) <= DestIndex(calls[j].during)
             /\ calls[i].during = calls[j].during =>
                   ~(/\ calls[i].line \in ProfilePhaseLines
                     /\ calls[j].line \in PatternPhaseLines)
    /\ \A j \in DOMAIN calls :
          (calls[j].line \in ProfilePhaseLines /\ ~dry_run) =>
              \E i \in 1..(j - 1) :
                  /\ calls[i].during = calls[j].during
                  /\ calls[i].line = 556
                  /\ calls[i].ok

\* an execute run over two destinations in which the first one had pattern
\* creates, a pattern update and profile modifications
C4_Witness ==
    /\ pc = "done"
    /\ Len(tenants_to_sync) = 2
    /\ \A ln \in {532, 546, 556, 564, 619, 633} :
          \E i \in DOMAIN calls : calls[i].line = ln
    /\ \E i \in DOMAIN calls :
          calls[i].during = tenants_to_sync[2].name /\ IsMutation(calls[i])

(***************************************************************************)
(* C5  sync always returns: no failure of a remote call, the initial       *)
(* source list calls included, leaves sync as an exception.                *)
(***************************************************************************)
C5_NeverRaises == pc # "raised"

(***************************************************************************)
(* C6  The entry of a destination is the bare {error} form only if the     *)
(* destination failed before its first classification, that is on the      *)
(* pattern listing of line 479; so the name of every entity whose create   *)
(* or update call succeeded is in the created / updated list of the entry  *)
(* of its destination.                                                     *)
(***************************************************************************)
C6_ErrorOnlyBeforeClassification ==
    \A dn \in DOMAIN global_report.tenants :
        LET e == global_report.tenants[dn]
        IN  /\ IsErrorEntry(e) =>
                  ~\E i \in DOMAIN calls :
                       /\ calls[i].during = dn
                       /\ calls[i].line = 479
                       /\ calls[i].ok
            /\ \A i \in DOMAIN calls :
                  (calls[i].during = dn /\ IsMutation(calls[i]) /\ calls[i].ok) =>
                      /\ ~IsErrorEntry(e)
                      /\ LET counts == IF calls[i].kind = "pattern"
                                       THEN e.patterns ELSE e.profiles
                             names == IF calls[i].op = "create"
                                      THEN counts.created ELSE counts.updated
                         IN  calls[i].name \in Range(names)

(***************************************************************************)
(* C7  Destination selection: when target names are given, only the        *)
(* authenticated destinations whose name is in the list receive calls and  *)
(* get a report entry, and when sync returns each of them has received a   *)
(* call and has an entry; when none matches, sync returns the empty        *)
(* outcome and no destination has received any call.                       *)
(***************************************************************************)
TargetGiven == target_tenants.given /\ target_tenants.names # {}

Matching ==
    {destinations[i].name : i \in DOMAIN destinations} \cap target_tenants.names

TenantOf(name) ==
    (CHOOSE x \in Range(destinations) : x.name = name).token

Issued == Len(calls') = Len(calls) + 1

NewCall == Last(calls')

Body(c) == IF c.kind = "profile" THEN c.payload.dataProfile ELSE c.payload

IsCustom(kind, e) ==
    IF kind = "pattern" THEN e.type # "predefined"
    ELSE e.profile_type = "custom"

Held(t, kind) == Range(store[t][kind])

(***************************************************************************)
(* C8  Predefined entities are never created or updated: the body of every *)
(* create call is that of a custom entity which carries the name and the   *)
(* type of a custom entity of the source, and the ID of every update call  *)
(* is, when the call is issued, the ID of a custom entity of the           *)
(* destination called and of no predefined one.                            *)
(***************************************************************************)
C8_Step ==
    Issued =>
        LET c == NewCall
        IN  /\ c.op = "create" =>
                  /\ IsCustom(c.kind, Body(c))
                  /\ \E e \in Held("Source", c.kind) :
                        /\ IsCustom(c.kind, e)
                        /\ e.name = Body(c).name
                        /\ e.name = c.name
            /\ c.op = "update" =>
                  /\ \E e \in Held(c.env, c.kind) :
                        e.id = c.id /\ IsCustom(c.kind, e)
                  /\ \A e \in Held(c.env, c.kind) :
                        e.id = c.id => IsCustom(c.kind, e)

C8_PredefinedNeverWritten == [][C8_Step]_vars

\* creates and updates of both kinds have succeeded at a destination that
\* holds predefined entities
C8_Witness ==
    /\ \A kind \in {"pattern", "profile"} :
          \A op \in {"create", "update"} :
              \E i \in DOMAIN calls :
                  calls[i].kind = kind /\ calls[i].op = op /\ calls[i].ok
    /\ \A t \in Tenants :
          \A kind \in {"pattern", "profile"} :
              \E e \in Held(t, kind) : ~IsCustom(kind, e)

(***************************************************************************)
(* C9  No call other than list, create and update is issued; no create or  *)
(* update is addressed to the source, whose store never changes; an update *)
(* is addressed to an entity whose name is the name of the custom source   *)
(* entity it carries; and every destination entity whose name is not the   *)
(* name of a custom source entity of its kind is left as it is by every    *)
(* step.                                                                   *)
(***************************************************************************)
SourceNames(kind) ==
    {e.name : e \in {x \in Held("Source", kind) : IsCustom(kind, x)}}

C9_Step ==
    /\ store'["Source"] = store["Source"]
    /\ \A t \in Tenants :
          \A kind \in {"pattern", "profile"} :
              \A i \in DOMAIN store[t][kind] :
                  store[t][kind][i].name \notin SourceNames(kind) =>
                      /\ i \in DOMAIN store'[t][kind]
                      /\ store'[t][kind][i] = store[t][kind][i]
    /\ Issued =>
          LET c == NewCall
          IN  /\ c.op \in {"list", "create", "update"}
              /\ IsMutation(c) => c.env # "Source"
              /\ c.op = "update" =>
                    /\ c.name \in SourceNames(c.kind)
                    /\ \A e \in Held(c.env, c.kind) :
                          e.id = c.id => e.name = c.name

C9_DestinationOnlyUntouched == [][C9_Step]_vars

\* a pattern and a profile have been updated at a destination that holds
\* a pattern and a profile the source does not have
C9_Witness ==
    \E t \in Tenants \ {"Source"} :
        /\ \A kind \in {"pattern", "profile"} :
              /\ \E i \in DOMAIN calls :
                    /\ calls[i].env = t /\ calls[i].kind = kind
                    /\ calls[i].op = "update" /\ calls[i].ok
              /\ \E e \in Held(t, kind) :
                    IsCustom(kind, e) /\ e.name \notin SourceNames(kind)

(***************************************************************************)
(* The references a profile embeds, in document order                      *)
(***************************************************************************)
RECURSIVE Concat(_)
Concat(ss) == IF ss = << >> THEN << >> ELSE Head(ss) \o Concat(Tail(ss))

RECURSIVE TreeRefs(_)
TreeRefs(tree) ==
    (IF Has(tree, "rule_item") /\ Has(tree.rule_item, "id")
     THEN << tree.rule_item.id >> ELSE << >>)
    \o (IF Has(tree, "sub_expressions")
        THEN Concat([i \in DOMAIN tree.sub_expressions |->
                        TreeRefs(tree.sub_expressions[i])])
        ELSE << >>)

PatternRefs(profile) ==
    Concat([i \in DOMAIN profile.detection_rules |->
              IF Has(profile.detection_rules[i], "expression_tree")
              THEN TreeRefs(profile.detection_rules[i].expression_tree)
              ELSE << >>])
    \o Concat([i \in DOMAIN profile.advance_data_patterns_rules |->
                 Concat([c \in DOMAIN profile.advance_data_patterns_rules[i].conditions |->
                    LET items == profile.advance_data_patterns_rules[i]
                                     .conditions[c].rule_items
                    IN  [r \in DOMAIN items |-> items[r].id]])])

ProfileRefs(profile) ==
    Concat([i \in DOMAIN profile.detection_rules |->
              IF Has(profile.detection_rules[i], "multi_profile")
              THEN profile.detection_rules[i].multi_profile.data_profile_ids
              ELSE << >>])

\* the ID the destination tenant t gives to the pattern that has ID r in the
\* source: that of the pattern of t with the same name, if there is one
LocalPatternId(t, r) ==
    LET named == {e \in Held(t, "pattern") :
                     \E sp \in Held("Source", "pattern") :
                         sp.id = r /\ sp.name = e.name}
    IN  IF named = {} THEN r ELSE (CHOOSE e \in named : TRUE).id

(***************************************************************************)
(* C10  Every update call is addressed to the ID of the entity that has,   *)
(* in the destination called, the name of the source entity, whatever the  *)
(* ID of the source entity; its body is the source entity without the      *)
(* metadata keys (so without id), with each embedded pattern ID replaced   *)
(* by the destination's ID of the pattern of the same name and each        *)
(* embedded profile ID replaced through the profile identity map.          *)
(***************************************************************************)
C10_Step ==
    (Issued /\ NewCall.op = "update") =>
        LET c == NewCall
            b == Body(c)
            src == CHOOSE e \in Held("Source", c.kind) : e.name = c.name
        IN  /\ \E e \in Held(c.env, c.kind) : e.name = c.name /\ e.id = c.id
            /\ \A e \in Held(c.env, c.kind) : e.id = c.id => e.name = c.name
            /\ DOMAIN b = (DOMAIN src) \ METADATA_FIELDS
            /\ "id" \notin DOMAIN b
            /\ \A k \in (DOMAIN b) \ {"detection_rules",
                                      "advance_data_patterns_rules"} :
                  b[k] = src[k]
            /\ c.kind = "profile" =>
                  /\ "dataProfile" \in DOMAIN c.payload
                  /\ PatternRefs(b) =
                        [i \in DOMAIN PatternRefs(src) |->
                            LocalPatternId(c.env, PatternRefs(src)[i])]
                  /\ ProfileRefs(b) =
                        [i \in DOMAIN ProfileRefs(src) |->
                            _remap_profile_id(ProfileRefs(src)[i],
                                              profile_id_mapping)]

C10_UpdateAddressesDestinationId == [][C10_Step]_vars

\* an update of a profile has been issued to an ID that is not the ID of
\* the source profile, with a body in which a pattern ID was rewritten
C10_Witness ==
    \E i \in DOMAIN calls :
        LET c == calls[i]
        IN  /\ c.op = "update" /\ c.kind = "profile" /\ c.ok
            /\ \E e \in Held("Source", "profile") :
                  /\ e.name = c.name
                  /\ e.id # c.id
                  /\ PatternRefs(e) # << >>
                  /\ \A j \in DOMAIN PatternRefs(e) :
                        PatternRefs(Body(c))[j] # PatternRefs(e)[j]

(***************************************************************************)
(* Vocabulary of the properties of the methods called on their own         *)
(***************************************************************************)
Arg == call_args

Result == call_result.value

NamesIn(lst) == {lst[i].name : i \in DOMAIN lst}

\* the item of a list that has the name
Named(lst, name) == lst[CHOOSE i \in DOMAIN lst : lst[i].name = name]

UpdateSources(plan) == {plan.to_update[i].source : i \in DOMAIN plan.to_update}

\* C11: compare_patterns places every source item whose name the
\* destination list does not hold in to_create, and in neither to_update
\* nor identical; with an empty destination list to_create is the whole
\* source list and to_update and identical are empty.
C11_AbsentNamesAreCreated ==
    Returned("compare_patterns") =>
        /\ \A i \in DOMAIN Arg.source_patterns :
              LET sp == Arg.source_patterns[i]
              IN  sp.name \notin NamesIn(Arg.dest_patterns) =>
                     /\ sp \in Range(Result.to_create)
                     /\ sp \notin UpdateSources(Result)
                     /\ sp \notin Range(Result.identical)
        /\ Arg.dest_patterns = << >> =>
              /\ Result.to_create = Arg.source_patterns
              /\ Result.to_update = << >>
              /\ Result.identical = << >>

\* a call with a destination that holds some of the source's names and
\* not others
C11_Witness ==
    /\ Returned("compare_patterns")
    /\ Arg.dest_patterns # << >>
    /\ Len(Result.to_create) = 2
    /\ Len(Result.identical) + Len(Result.to_update) > 0

\* a call with an empty destination list and two source items
C11_EmptyDestination ==
    /\ Returned("compare_patterns")
    /\ Arg.dest_patterns = << >>
    /\ Len(Arg.source_patterns) = 2

\* the entity without the fields that sync.py 14-17 names
Strip8(e) ==
    [k \in (DOMAIN e) \ {"id", "created_at", "created_by", "updated_at",
                         "updated_by", "version", "tenant", "tenant_id"} |->
        e[k]]

\* the entity with its references in the IDs of the destination
InDestIds(e, pmap, fmap) ==
    _remap_profile_ids(_remap_pattern_ids(e, pmap), fmap)

\* the entity with the lists of some keys, at every depth, reversed
Reorderings(e) ==
    {Edit(e, "top", [NoEdit EXCEPT !.rev = w]) : w \in SUBSET ListKeys}

\* the entity without any supported_confidence_levels
StripLevels(e) == Edit(e, "top", [NoEdit EXCEPT !.strip = TRUE])

\* the pairs of a source item and the destination item of the same name
SameNamePairs ==
    {pr \in (DOMAIN Arg.source_patterns) \X (DOMAIN Arg.dest_patterns) :
        Arg.source_patterns[pr[1]].name = Arg.dest_patterns[pr[2]].name}

SourceOf(pr) == Arg.source_patterns[pr[1]]

\* the source item of the pair, as the destination would hold it
Expected(pr) ==
    InDestIds(Strip8(SourceOf(pr)), Arg.pattern_id_mapping,
              Arg.profile_id_mapping)

Served(pr) == Strip8(Arg.dest_patterns[pr[2]])

IsIdentical(sp) ==
    /\ sp \in Range(Result.identical)
    /\ sp \notin UpdateSources(Result)
    /\ sp \notin Range(Result.to_create)

\* C12: a source entity and the destination entity of the same name that
\* differ only in the order of the elements of their lists, at any depth,
\* are classified identical and not to_update.
C12_ListOrderIgnored ==
    Returned("compare_patterns") =>
        \A pr \in SameNamePairs :
            Served(pr) \in Reorderings(Expected(pr)) => IsIdentical(SourceOf(pr))

\* a destination entity with every list reversed, compared through
\* non-empty maps
C12_Witness ==
    /\ Returned("compare_patterns")
    /\ Arg.pattern_id_mapping # << >>
    /\ \E pr \in SameNamePairs :
          /\ Served(pr) = Edit(Expected(pr), "top",
                               [NoEdit EXCEPT !.rev = ListKeys])
          /\ Served(pr) # Expected(pr)
          /\ IsIdentical(SourceOf(pr))

\* C13: a source entity and the destination entity of the same name that
\* differ only in the value or the presence of supported_confidence_levels,
\* wherever the key appears, are classified identical.
C13_ConfidenceLevelsIgnored ==
    Returned("compare_patterns") =>
        \A pr \in SameNamePairs :
            StripLevels(Served(pr)) = StripLevels(Expected(pr))
                => IsIdentical(SourceOf(pr))

\* the source has the key with one value in nested dicts, the destination
\* has it elsewhere or with another value
C13_Witness ==
    /\ Returned("compare_patterns")
    /\ Arg.pattern_id_mapping # << >>
    /\ \E pr \in SameNamePairs :
          /\ StripLevels(Served(pr)) = StripLevels(Expected(pr))
          /\ Served(pr) # Expected(pr)
          /\ Expected(pr) # StripLevels(Expected(pr))
          /\ Has(Served(pr), "supported_confidence_levels")
          /\ IsIdentical(SourceOf(pr))

\* C14: a source entity and the destination entity of the same name that
\* differ only in the values or the presence of their fields id,
\* created_at, created_by, updated_at, updated_by, version, tenant and
\* tenant_id are classified identical.
C14_MetadataIgnored ==
    Returned("compare_patterns") =>
        \A pr \in SameNamePairs :
            Served(pr) = Expected(pr) => IsIdentical(SourceOf(pr))

\* the two entities have different id and version, and the destination
\* has metadata fields the source has not
C14_Witness ==
    /\ Returned("compare_patterns")
    /\ \E pr \in SameNamePairs :
          LET s == SourceOf(pr)
              dst == Arg.dest_patterns[pr[2]]
          IN  /\ Served(pr) = Expected(pr)
              /\ s.id # dst.id
              /\ s.version # dst.version
              /\ Has(dst, "tenant_id") /\ ~Has(s, "tenant_id")
              /\ Has(s, "detection_rules")
              /\ IsIdentical(s)

\* C15: for every entity e, _normalize_pattern(e) has none of the 8
\* metadata keys, has every other field of e with the value it has in e,
\* nested structures included, and nothing else; e is as it was.
C15_Step ==
    Calling("_normalize_pattern") =>
        LET e == call_args.pattern
            out == call_result'.value
        IN  /\ (DOMAIN out) \cap {"id", "created_at", "created_by",
                                  "updated_at", "updated_by", "version",
                                  "tenant", "tenant_id"} = {}
            /\ DOMAIN out = (DOMAIN e) \ {"id", "created_at", "created_by",
                                          "updated_at", "updated_by",
                                          "version", "tenant", "tenant_id"}
            /\ \A k \in DOMAIN out : out[k] = e[k]
            /\ call_args'.pattern = e

C15_NormalizeRemovesMetadataOnly == [][C15_Step]_vars

\* a profile with all 8 metadata fields and with nested id keys went
\* through the call
C15_Witness ==
    /\ Returned("_normalize_pattern")
    /\ StampNames \subseteq DOMAIN Arg.pattern
    /\ Has(Arg.pattern, "detection_rules")
    /\ Result = Strip8(ProfileR(10, 1, 2, 3, 12, 30, 1))

\* the IDs of the rule items of a list, -1 for an item without id
ItemRefs(items) ==
    [r \in DOMAIN items |-> IF Has(items[r], "id") THEN items[r].id ELSE -1]

\* every pattern reference of a profile, in the order of a walk through
\* its detection rules (trees in pre-order) and then its advance rules
AllPatternRefs(profile) ==
    (IF Has(profile, "detection_rules")
     THEN Concat([i \in DOMAIN profile.detection_rules |->
                    IF Has(profile.detection_rules[i], "expression_tree")
                    THEN TreeRefs(profile.detection_rules[i].expression_tree)
                    ELSE << >>])
     ELSE << >>)
    \o (IF Has(profile, "advance_data_patterns_rules")
        THEN Concat([i \in DOMAIN profile.advance_data_patterns_rules |->
                LET rule == profile.advance_data_patterns_rules[i]
                IN  IF Has(rule, "conditions")
                    THEN Concat([c \in DOMAIN rule.conditions |->
                            IF Has(rule.conditions[c], "rule_items")
                            THEN ItemRefs(rule.conditions[c].rule_items)
                            ELSE << >>])
                    ELSE << >>])
        ELSE << >>)

BlankItem(rule_item) ==
    IF Has(rule_item, "id") THEN [rule_item EXCEPT !.id = 0] ELSE rule_item

RECURSIVE BlankTree(_)
BlankTree(tree) ==
    [k \in DOMAIN tree |->
        IF k = "rule_item" THEN BlankItem(tree[k])
        ELSE IF k = "sub_expressions"
             THEN [i \in DOMAIN tree[k] |-> BlankTree(tree[k][i])]
             ELSE tree[k]]

\* the profile with every pattern reference blanked: what is left is the
\* shape of the trees, the order of the children and all other fields
Skeleton(profile) ==
    [k \in DOMAIN profile |->
        IF k = "detection_rules"
        THEN [i \in DOMAIN profile[k] |->
                [j \in DOMAIN profile[k][i] |->
                    IF j = "expression_tree"
                    THEN BlankTree(profile[k][i][j])
                    ELSE profile[k][i][j]]]
        ELSE IF k = "advance_data_patterns_rules"
        THEN [i \in DOMAIN profile[k] |->
                [j \in DOMAIN profile[k][i] |->
                    IF j = "conditions"
                    THEN [c \in DOMAIN profile[k][i][j] |->
                            [l \in DOMAIN profile[k][i][j][c] |->
                                IF l = "rule_items"
                                THEN [r \in DOMAIN profile[k][i][j][c][l] |->
                                        BlankItem(profile[k][i][j][c][l][r])]
                                ELSE profile[k][i][j][c][l]]]
                    ELSE profile[k][i][j]]]
        ELSE profile[k]]

\* C16: _remap_pattern_ids replaces the id of every expression tree node,
\* at any depth, and of every rule item of the advance rules that is a key
\* of the map by the mapped value, and changes nothing else: the shape of
\* the trees, the order of the children and all other fields are the
\* input's.
C16_Step ==
    Calling("_remap_pattern_ids") =>
        LET in == call_args.profile
            m == call_args.pattern_id_mapping
            out == call_result'.value
        IN  /\ Skeleton(out) = Skeleton(in)
            /\ DOMAIN AllPatternRefs(out) = DOMAIN AllPatternRefs(in)
            /\ \A i \in DOMAIN AllPatternRefs(in) :
                  AllPatternRefs(in)[i] \in DOMAIN m =>
                     AllPatternRefs(out)[i] = m[AllPatternRefs(in)[i]]

C16_MappedReferencesRewritten == [][C16_Step]_vars

\* a tree of the largest depth with a node that has both a reference and
\* children, and advance rules, rewritten under a map that has some of the
\* references as keys
C16_Witness ==
    /\ Returned("_remap_pattern_ids")
    /\ Result # Arg.profile
    /\ Arg.profile.detection_rules[1].expression_tree =
          TreeOf(MaxDepth, 1, "item")
    /\ Arg.profile.advance_data_patterns_rules # << >>
    /\ \E i \in DOMAIN AllPatternRefs(Arg.profile) :
          AllPatternRefs(Arg.profile)[i] \in DOMAIN Arg.pattern_id_mapping
    /\ DOMAIN Arg.pattern_id_mapping = {1, 2}

\* the references that are no key of the map are where they were
Untouched(in, out, m) ==
    /\ DOMAIN AllPatternRefs(out) = DOMAIN AllPatternRefs(in)
    /\ \A i \in DOMAIN AllPatternRefs(in) :
          AllPatternRefs(in)[i] \notin DOMAIN m =>
             AllPatternRefs(out)[i] = AllPatternRefs(in)[i]

\* C17: _remap_pattern_ids leaves every pattern id that is no key of the
\* map as it is and returns normally, so that with an empty map the result
\* equals the input; the bodies that create_profile and update_profile
\* submit carry the unmapped pattern and profile ids of the profile, and
\* with empty maps they are the profile without its metadata.
C17_Step ==
    /\ Calling("_remap_pattern_ids") =>
          /\ call_result'.done
          /\ Untouched(call_args.profile, call_result'.value,
                       call_args.pattern_id_mapping)
          /\ call_args.pattern_id_mapping = << >> =>
                call_result'.value = call_args.profile
    /\ (Calling("create_profile") \/ Calling("update_profile")) =>
          LET in == Strip8(call_args.profile)
              body == call_result'.value.dataProfile
              fm == call_args.profile_id_mapping
          IN  /\ call_result'.done
              /\ Untouched(in, body, call_args.pattern_id_mapping)
              /\ DOMAIN ProfileRefs(body) = DOMAIN ProfileRefs(in)
              /\ \A i \in DOMAIN ProfileRefs(in) :
                    ProfileRefs(in)[i] \notin DOMAIN fm =>
                       ProfileRefs(body)[i] = ProfileRefs(in)[i]
              /\ (call_args.pattern_id_mapping = << >> /\ fm = << >>) =>
                    body = in

C17_UnmappedReferencesPassThrough == [][C17_Step]_vars

\* a body that was submitted with a reference to a pattern that the map
\* does not have, next to one that it has
C17_Witness ==
    /\ Returned("create_profile")
    /\ Arg.pattern_id_mapping # << >>
    /\ 4 \in Range(AllPatternRefs(Result.dataProfile))
    /\ 7 \in Range(AllPatternRefs(Result.dataProfile))
    /\ 1 \in Range(AllPatternRefs(Arg.profile))

\* m.get(id, id)
MapGet(m, id) == IF id \in DOMAIN m THEN m[id] ELSE id

IsMultiProfile(rule) == Has(rule, "rule_type") /\ rule.rule_type = "multi_profile"

\* a rule that holds its profile IDs under the key multi_profile
HoldsNested(rule) ==
    /\ Has(rule, "multi_profile")
    /\ Has(rule.multi_profile, "data_profile_ids")

\* C18, as stated: of each detection rule {rule_type: multi_profile,
\* data_profile_ids: [...]} every element of data_profile_ids is replaced
\* by profileMap.get(id, id), length and order kept; detection rules of
\* other rule types are unchanged.
C18_Stated_Step ==
    Calling("_remap_profile_ids") /\ Has(call_args.profile, "detection_rules") =>
        LET in == call_args.profile.detection_rules
            out == call_result'.value.detection_rules
            m == call_args.profile_id_mapping
        IN  /\ DOMAIN out = DOMAIN in
            /\ \A i \in DOMAIN in :
                  IF IsMultiProfile(in[i])
                  THEN Has(in[i], "data_profile_ids") =>
                          /\ Has(out[i], "data_profile_ids")
                          /\ out[i].data_profile_ids =
                                [j \in DOMAIN in[i].data_profile_ids |->
                                    MapGet(m, in[i].data_profile_ids[j])]
                  ELSE out[i] = in[i]

C18_IdsOnTheRuleRewritten == [][C18_Stated_Step]_vars

\* C18, amended: of each detection rule whose rule_type is multi_profile
\* and that holds its references under the key multi_profile, every
\* element of multi_profile.data_profile_ids is replaced by
\* profileMap.get(id, id), length and order kept; everything else of the
\* profile is unchanged: the rules of other rule types, the other fields
\* of a rewritten rule, and a data_profile_ids that is a key of the rule
\* itself.
C18_Step ==
    Calling("_remap_profile_ids") =>
        LET p == call_args.profile
            q == call_result'.value
            m == call_args.profile_id_mapping
        IN  /\ DOMAIN q = DOMAIN p
            /\ \A k \in (DOMAIN p) \ {"detection_rules"} : q[k] = p[k]
            /\ Has(p, "detection_rules") =>
                  /\ DOMAIN q.detection_rules = DOMAIN p.detection_rules
                  /\ \A i \in DOMAIN p.detection_rules :
                        LET in == p.detection_rules[i]
                            out == q.detection_rules[i]
                        IN  IF IsMultiProfile(in) /\ HoldsNested(in)
                            THEN /\ DOMAIN out = DOMAIN in
                                 /\ \A k \in (DOMAIN in) \ {"multi_profile"} :
                                       out[k] = in[k]
                                 /\ DOMAIN out.multi_profile =
                                       DOMAIN in.multi_profile
                                 /\ \A k \in (DOMAIN in.multi_profile)
                                             \ {"data_profile_ids"} :
                                       out.multi_profile[k] = in.multi_profile[k]
                                 /\ out.multi_profile.data_profile_ids =
                                       [j \in DOMAIN in.multi_profile.data_profile_ids |->
                                           MapGet(m, in.multi_profile.data_profile_ids[j])]
                            ELSE out = in

C18_NestedIdsRewritten == [][C18_Step]_vars

\* a rule with a mapped and an unmapped ID under multi_profile was
\* rewritten, next to a rule of another type
C18_Witness ==
    /\ Returned("_remap_profile_ids")
    /\ Arg.profile_id_mapping # << >>
    /\ Has(Arg.profile, "detection_rules")
    /\ Len(Arg.profile.detection_rules) = 2
    /\ Arg.profile.detection_rules[1] = RuleWith(<< 11, 10, 30 >>, "nested+")
    /\ Arg.profile.detection_rules[2] = TreeRule
    /\ Result.detection_rules[1].multi_profile.data_profile_ids
          = << 12, 11, 30 >>

\* a rule with a mapped ID directly on the rule went through the call
C18_FlatWitness ==
    /\ Returned("_remap_profile_ids")
    /\ 10 \in DOMAIN Arg.profile_id_mapping
    /\ Has(Arg.profile, "detection_rules")
    /\ Arg.profile.detection_rules # << >>
    /\ Arg.profile.detection_rules[1] = RuleWith(<< 10, 30 >>, "flat")
    /\ Result = Arg.profile

\* the custom entities the source holds, which the run fetches at its start
FetchedAtStart(kind) ==
    SelectSeq(SourceStore[kind], LAMBDA e : IsCustom(kind, e))

SourceFetched ==
    pc \notin {"source_patterns", "source_profiles", "raised", "idle"}

\* C19: rewriting references never changes the caller's entities: after
\* any number of classifications, create_profile and update_profile calls
\* over any number of destinations the source lists of the run are what was
\* fetched at its start, and every profile body submitted to a destination
\* is the original source profile with its pattern IDs replaced by that
\* destination's IDs of the patterns of the same names and its profile IDs
\* replaced through that destination's profile map.
C19_Step ==
    /\ pc # "source_patterns" => source_patterns' = source_patterns
    /\ pc # "source_profiles" => source_profiles' = source_profiles
    /\ SourceFetched =>
          /\ source_patterns = FetchedAtStart("pattern")
          /\ source_profiles = FetchedAtStart("profile")
    /\ (Issued /\ IsMutation(NewCall) /\ NewCall.kind = "profile") =>
          LET c == NewCall
              orig == Named(SourceStore.profile, c.name)
          IN  /\ AllPatternRefs(Body(c)) =
                    [i \in DOMAIN AllPatternRefs(orig) |->
                        LocalPatternId(c.env, AllPatternRefs(orig)[i])]
              /\ ProfileRefs(Body(c)) =
                    [i \in DOMAIN ProfileRefs(orig) |->
                        MapGet(profile_id_mapping, ProfileRefs(orig)[i])]

C19_SourceNeverMutated == [][C19_Step]_vars

\* a profile was written to the second destination after its source
\* entity had been compared at, and written to, the first
C19_Witness ==
    /\ Len(tenants_to_sync) = 2
    /\ d = 2
    /\ calls # << >>
    /\ Last(calls).kind = "profile"
    /\ IsMutation(Last(calls))
    /\ Last(calls).ok
    /\ \E i \in DOMAIN calls :
          /\ calls[i].during = tenants_to_sync[1].name
          /\ calls[i].op = "update"
          /\ calls[i].kind = "profile"
          /\ calls[i].name = Last(calls).name
          /\ calls[i].ok
    /\ source_profiles = FetchedAtStart("profile")

UniqueNames(lst) ==
    \A i, j \in DOMAIN lst : lst[i].name = lst[j].name => i = j

\* the map from source to dest has an entry exactly for the items of
\* source whose name dest holds, to the ID dest gives to that name
IsNameJoin(map, source, dest) ==
    /\ DOMAIN map = {source[i].id : i \in {j \in DOMAIN source :
                                             source[j].name \in NamesIn(dest)}}
    /\ \A i \in DOMAIN source :
          IF source[i].name \in NamesIn(dest)
          THEN map[source[i].id] = Named(dest, source[i].name).id
          ELSE source[i].id \notin DOMAIN map

\* C20: with names unique per list, _build_pattern_id_mapping and
\* _build_profile_id_mapping return a map with an entry source id ->
\* destination id exactly for the source items whose name occurs in the
\* destination list, the destination id being the ID of the destination
\* item of that name; a source item whose name the destination has not
\* has no entry.
C20_MapJoinsByName ==
    /\ Returned("_build_pattern_id_mapping") =>
          (UniqueNames(Arg.source_patterns) /\ UniqueNames(Arg.dest_patterns)
              => IsNameJoin(Result, Arg.source_patterns, Arg.dest_patterns))
    /\ Returned("_build_profile_id_mapping") =>
          (UniqueNames(Arg.source_profiles) /\ UniqueNames(Arg.dest_profiles)
              => IsNameJoin(Result, Arg.source_profiles, Arg.dest_profiles))

\* a map with two entries, for a source with a third name that the
\* destination has not, and a destination with a name of its own
C20_Witness ==
    /\ Returned("_build_pattern_id_mapping")
    /\ NamesIn(Arg.source_patterns) = {"A", "B", "C"}
    /\ NamesIn(Arg.dest_patterns) = {"B", "C", "Z"}
    /\ DOMAIN Result = {2, 3}
    /\ Result[2] = 3
    /\ Result[3] = 7

\* C21: the source is listed once per run, before any destination is
\* processed: no list call against the source is issued while a destination
\* is being processed, so that no destination has an error entry for a
\* call against the source that failed.
C21_SourceFetchedOnce ==
    /\ \A i \in DOMAIN calls :
          calls[i].env = "Source" =>
             /\ calls[i].during = ""
             /\ \A j \in DOMAIN calls :
                   (calls[j].env = "Source" /\ calls[j].kind = calls[i].kind
                       /\ calls[j].ok /\ calls[i].ok) => i = j
    /\ \A n \in DOMAIN global_report.tenants :
          IsErrorEntry(global_report.tenants[n]) =>
             \A i \in DOMAIN calls :
                (calls[i].during = n /\ ~calls[i].ok) => calls[i].env # "Source"

\* a destination has an error entry and the one call that failed while it
\* was processed was the list of the source's patterns of line 563
C21_SourceFailureAtDestination ==
    /\ \E n \in DOMAIN global_report.tenants :
          /\ IsErrorEntry(global_report.tenants[n])
          /\ \A i \in DOMAIN calls :
                (calls[i].during = n /\ ~calls[i].ok) =>
                    (calls[i].env = "Source" /\ calls[i].line = 563)

(***************************************************************************)
(* Authentication failures (AuthSpec)                                      *)
(***************************************************************************)
\* the token requests issued for tenant t
AuthCalls(t) == {i \in DOMAIN calls : calls[i].op = "auth" /\ calls[i].env = t}

AuthFailed(t) == \E i \in AuthCalls(t) : ~calls[i].ok

AuthSucceeded(t) == \E i \in AuthCalls(t) : calls[i].ok

ConnectedNames == {destinations[i].name : i \in DOMAIN destinations}

\* C22: when the token request of the source fails the run ends by the
\* exception and no call is issued to any destination; when the token
\* request of a destination fails that destination is left out of
\* self.destinations, a connection error naming it is printed, no list,
\* create or update call is ever issued to it, and its token is not requested
\* again; every destination whose token request succeeded is in
\* self.destinations and, when the selection keeps it, has its entry in the
\* report of the run.
C22_AuthenticationFailures ==
    /\ AuthFailed("Source") =>
          /\ pc = "raised"
          /\ returned = "pending"
          /\ \A i \in DOMAIN calls : calls[i].env = "Source" /\ calls[i].op = "auth"
    /\ \A t \in Range(dest_creds_list) :
          /\ Cardinality(AuthCalls(t)) <= 1
          /\ AuthFailed(t) =>
                /\ t \notin ConnectedNames
                /\ \E k \in DOMAIN printed : printed[k] = ConnectionError(t)
                /\ \A i \in DOMAIN calls :
                      (calls[i].env = t \/ calls[i].during = t) => calls[i].op = "auth"
                /\ t \notin DOMAIN global_report.tenants
          /\ AuthSucceeded(t) =>
                /\ t \in ConnectedNames
                /\ (returned = "report" /\ (TargetGiven => t \in target_tenants.names))
                      => t \in DOMAIN global_report.tenants

\* the first destination failed to authenticate and the run went on to
\* modify the second one and to report it
C22_Witness ==
    /\ returned = "report"
    /\ AuthFailed("Prod")
    /\ AuthSucceeded("Dev")
    /\ "Dev" \in DOMAIN global_report.tenants
    /\ ~IsErrorEntry(global_report.tenants["Dev"])
    /\ \E i \in DOMAIN calls :
          calls[i].env = "Dev" /\ IsMutation(calls[i]) /\ calls[i].ok

\* the source failed to authenticate
C22_SourceWitness == AuthFailed("Source") /\ pc = "raised"

(***************************************************************************)
(* The pattern identity map of the profiles phase                          *)
(***************************************************************************)
ProfilesPhase == pc \in {"dest_profiles", "create_profile", "update_profile",
                         "dest_done"}

\* the map from the ID of every pattern of the source, predefined or not,
\* whose name tenant t holds now, to the ID t gives to that name
ExpectedPatternMap(t) ==
    [sid \in {sp.id : sp \in {e \in Held("Source", "pattern") :
                                \E dp \in Held(t, "pattern") : dp.name = e.name}}
        |-> LocalPatternId(t, sid)]

C23_MapComplete ==
    ProfilesPhase =>
        /\ pattern_id_mapping = ExpectedPatternMap(Dest.token)
        /\ \A i \in DOMAIN calls :
              (/\ calls[i].during = Dest.name
               /\ calls[i].op = "create"
               /\ calls[i].kind = "pattern"
               /\ calls[i].ok) =>
                  \E sp \in Held("Source", "pattern"),
                     dp \in Held(Dest.token, "pattern") :
                      /\ sp.name = calls[i].name
                      /\ dp.name = calls[i].name
                      /\ sp.id \in DOMAIN pattern_id_mapping
                      /\ pattern_id_mapping[sp.id] = dp.id
        /\ \A sp \in Held("Source", "pattern"),
              dp \in Held(Dest.token, "pattern") :
              (sp.type = "predefined" /\ sp.name = dp.name) =>
                  /\ sp.id \in DOMAIN pattern_id_mapping
                  /\ pattern_id_mapping[sp.id] = dp.id

\* C23: all through the profiles phase of a destination the pattern
\* identity map is the join by name of all the patterns of the source with
\* all the patterns the destination holds after its patterns phase, so it
\* has an entry for every pattern created in this run, to the ID the
\* destination gave it, and for every predefined pattern held at both ends;
\* the profiles are classified with that map, and in the body of every
\* profile create or update call each pattern reference is the
\* destination's ID of the pattern the source profile refers to.
C23_Step ==
    /\ C23_MapComplete'
    /\ (pc = "dest_profiles" /\ Issued /\ NewCall.ok) =>
          profiles_plan' =
              compare_patterns(get_data_profiles("Source", TRUE),
                               get_data_profiles(Dest.token, TRUE),
                               ExpectedPatternMap(Dest.token),
                               profile_id_mapping')
    /\ (Issued /\ IsMutation(NewCall) /\ NewCall.kind = "profile") =>
          LET src == CHOOSE e \in Held("Source", "profile") : e.name = NewCall.name
          IN  PatternRefs(Body(NewCall)) =
                 [i \in DOMAIN PatternRefs(src) |->
                     LocalPatternId(NewCall.env, PatternRefs(src)[i])]

C23_MapBuiltAfterPatternsPhase == [][C23_Step]_vars

\* pattern A was created at Prod in this run and a profile was then created
\* there whose references to A and to the predefined P are Prod's IDs of
\* both, neither being the source's ID
C23_Witness ==
    \E i, j \in DOMAIN calls :
        /\ i < j
        /\ calls[i].env = "Prod" /\ calls[i].op = "create"
        /\ calls[i].kind = "pattern" /\ calls[i].name = "A" /\ calls[i].ok
        /\ calls[j].env = "Prod" /\ calls[j].op = "create"
        /\ calls[j].kind = "profile" /\ calls[j].ok
        /\ LocalPatternId("Prod", 1) # 1
        /\ LocalPatternId("Prod", 3) # 3
        /\ {LocalPatternId("Prod", 1), LocalPatternId("Prod", 3)}
              \subseteq Range(PatternRefs(Body(calls[j])))

(***************************************************************************)
(* Classification of the profiles across ID spaces                         *)
(***************************************************************************)
\* the ID tenant t gives to the profile that has ID r in the source
LocalProfileId(t, r) ==
    LET named == {e \in Held(t, "profile") :
                     \E sp \in Held("Source", "profile") :
                         sp.id = r /\ sp.name = e.name}
    IN  IF named = {} THEN r ELSE (CHOOSE e \in named : TRUE).id

\* the map from the ID of every profile of the source, predefined or not,
\* whose name tenant t holds, to the ID t gives to that name
ExpectedProfileMap(t) ==
    [sid \in {sp.id : sp \in {e \in Held("Source", "profile") :
                                \E dp \in Held(t, "profile") : dp.name = e.name}}
        |-> LocalProfileId(t, sid)]

\* the entity without its metadata, every embedded pattern ID and profile ID
\* replaced by the ID tenant t gives to the entity of the same name
InLocalIds(t, e) ==
    _remap_profile_ids(_remap_pattern_ids(_normalize_pattern(e),
                                          ExpectedPatternMap(t)),
                       ExpectedProfileMap(t))

\* C24: when the profiles of a destination are classified, every custom
\* profile of the source that equals the destination's profile of the same
\* name once each pattern ID and each profile ID embedded in it is replaced
\* by the destination's ID of the entity of the same name, is classified
\* identical.
C24_Step ==
    (pc = "dest_profiles" /\ Issued /\ NewCall.ok) =>
        \A sp \in Held("Source", "profile"), dp \in Held(Dest.token, "profile") :
            (/\ IsCustom("profile", sp)
             /\ IsCustom("profile", dp)
             /\ sp.name = dp.name
             /\ InLocalIds(Dest.token, sp) = _normalize_pattern(dp)) =>
                sp.name \in NamesIn(profiles_plan'.identical)

C24_ClassificationIdSpaceAware == [][C24_Step]_vars

\* the granular profile Y, held by the destination with the destination's
\* IDs of the profiles X and Q, has been classified as to update
C24_GranularProfileToUpdate ==
    /\ ProfilesPhase
    /\ pc # "dest_profiles"
    /\ \E dp \in Held(Dest.token, "profile") :
          /\ dp.name = "Y"
          /\ \E sp \in Held("Source", "profile") :
                sp.name = "Y" /\ InLocalIds(Dest.token, sp) = _normalize_pattern(dp)
    /\ \E i \in DOMAIN profiles_plan.to_update :
          /\ profiles_plan.to_update[i].source.name = "Y"
          /\ profiles_plan.to_update[i].diff = {"detection_rules"}

(***************************************************************************)
(* Accounting of the apply loops                                           *)
(***************************************************************************)
KindCounts(e, kind) == IF kind = "pattern" THEN e.patterns ELSE e.profiles

\* the calls of one kind and operation issued for the name while dn was
\* processed
CallsFor(dn, kind, op, name) ==
    {j \in DOMAIN calls : /\ calls[j].during = dn
                          /\ calls[j].kind = kind
                          /\ calls[j].op = op
                          /\ calls[j].name = name}

\* C25: in an execute run, the report of every destination that has no
\* error entry satisfies, for each kind, len(created) + len(updated) +
\* len(errors) = to_create + to_update, with as many create calls as
\* to_create and as many update calls as to_update; and when the
\* destination's report is about to be stored every item of its two plans
\* has received exactly one call of its operation.
C25_ExactlyOnceAccounting ==
    ~dry_run =>
        /\ \A dn \in DOMAIN global_report.tenants :
              LET e == global_report.tenants[dn]
              IN  ~IsErrorEntry(e) =>
                     \A kind \in {"pattern", "profile"} :
                        LET counts == KindCounts(e, kind)
                        IN  /\ Len(counts.created) + Len(counts.updated)
                                  + Len(counts.errors)
                               = counts.to_create + counts.to_update
                            /\ Len(Applied(dn, kind, "create")) = counts.to_create
                            /\ Len(Applied(dn, kind, "update")) = counts.to_update
        /\ pc = "dest_done" =>
              \A kind \in {"pattern", "profile"} :
                 LET plan == IF kind = "pattern" THEN patterns_plan
                             ELSE profiles_plan
                     counts == KindCounts(report, kind)
                 IN  /\ counts.to_create = Len(plan.to_create)
                     /\ counts.to_update = Len(plan.to_update)
                     /\ \A i \in DOMAIN plan.to_create :
                           Cardinality(CallsFor(Dest.name, kind, "create",
                                                plan.to_create[i].name)) = 1
                     /\ \A i \in DOMAIN plan.to_update :
                           Cardinality(CallsFor(Dest.name, kind, "update",
                                                plan.to_update[i].source.name)) = 1
                     /\ Len(Applied(Dest.name, kind, "create")) = Len(plan.to_create)
                     /\ Len(Applied(Dest.name, kind, "update")) = Len(plan.to_update)

\* an execute run has returned the report of a destination that had several
\* items to apply of each kind, of which some failed and some succeeded
C25_Witness ==
    /\ returned = "report"
    /\ ~dry_run
    /\ \E dn \in DOMAIN global_report.tenants :
          LET e == global_report.tenants[dn]
          IN  /\ ~IsErrorEntry(e)
              /\ e.patterns.to_create + e.patterns.to_update >= 2
              /\ e.profiles.to_create + e.profiles.to_update >= 2
              /\ e.patterns.errors # << >>
              /\ e.profiles.errors # << >>
              /\ e.patterns.created \o e.patterns.updated # << >>
              /\ e.profiles.created \o e.profiles.updated # << >>

(***************************************************************************)
(* Convergence (AgainSpec)                                                 *)
(***************************************************************************)
AllSucceeded(cs) == \A i \in DOMAIN cs : cs[i].ok

\* the previous call of sync was an execute run that returned its report
\* and in which every remote call succeeded
AfterCleanExecute ==
    /\ earlier # << >>
    /\ ~Last(earlier).dry_run
    /\ Last(earlier).returned = "report"
    /\ AllSucceeded(Last(earlier).calls)

\* C26: in the call of sync that follows an execute run in which every
\* remote call succeeded, every destination that run reported and that this
\* call reports without error has to_create = to_update = 0 for the
\* patterns and for the profiles.
C26_Convergence ==
    AfterCleanExecute =>
        \A dn \in DOMAIN global_report.tenants :
            LET e == global_report.tenants[dn]
                before == Last(earlier).report.tenants
            IN  (/\ dn \in DOMAIN before
                 /\ ~IsErrorEntry(before[dn])
                 /\ ~IsErrorEntry(e)) =>
                    /\ e.patterns.to_create = 0
                    /\ e.patterns.to_update = 0
                    /\ e.profiles.to_create = 0
                    /\ e.profiles.to_update = 0

\* the run that follows a clean execute run in which the profiles X and Y
\* were created at a destination finds Y to update there, Y holding the
\* source's ID of X and not the destination's
C26_CreatedGranularProfileToUpdate ==
    /\ AfterCleanExecute
    /\ AllSucceeded(calls)
    /\ \E dn \in DOMAIN global_report.tenants :
          LET e == global_report.tenants[dn]
              before == Last(earlier).report.tenants
          IN  /\ dn \in DOMAIN before
              /\ ~IsErrorEntry(before[dn])
              /\ {"X", "Y"} \subseteq Range(before[dn].profiles.created)
              /\ ~IsErrorEntry(e)
              /\ e.patterns.to_create = 0
              /\ e.patterns.to_update = 0
              /\ e.profiles.to_update >= 1
              /\ \E x, y \in Held(TenantOf(dn), "profile") :
                    /\ x.name = "X" /\ y.name = "Y"
                    /\ ProfileRefs(y)[1] # x.id
                    /\ \E sx \in Held("Source", "profile") :
                          sx.name = "X" /\ ProfileRefs(y)[1] = sx.id

(***************************************************************************)
(* Single-step rewriting (CallSpec)                                        *)
(***************************************************************************)
\* the references, each looked up once in the map
Once(refs, m) == [i \in DOMAIN refs |-> MapGet(m, refs[i])]

\* a reference of the list that a second lookup would change again
Chained(refs, m) ==
    \E i \in DOMAIN refs : MapGet(m, MapGet(m, refs[i])) # MapGet(m, refs[i])

NestedRefs(profile) ==
    IF Has(profile, "detection_rules")
    THEN Concat([i \in DOMAIN profile.detection_rules |->
                   IF IsMultiProfile(profile.detection_rules[i])
                       /\ HoldsNested(profile.detection_rules[i])
                   THEN profile.detection_rules[i].multi_profile.data_profile_ids
                   ELSE << >>])
    ELSE << >>

\* C27: each rewriting function returns every reference looked up once in
\* its map, the value found never being looked up again; the body that
\* create_profile and update_profile submit carries the references of the
\* entity handed in, each looked up once, and the entity handed in is left
\* as it was; compare_patterns returns the source entities themselves, not
\* rewritten, and leaves its source list as it was, so that what is
\* submitted afterwards is rewritten once from the original.
C27_Step ==
    /\ Calling("_remap_pattern_ids") =>
          AllPatternRefs(call_result'.value) =
             Once(AllPatternRefs(call_args.profile), call_args.pattern_id_mapping)
    /\ Calling("_remap_profile_ids") =>
          NestedRefs(call_result'.value) =
             Once(NestedRefs(call_args.profile), call_args.profile_id_mapping)
    /\ (Calling("create_profile") \/ Calling("update_profile")) =>
          LET body == call_result'.value.dataProfile
          IN  /\ AllPatternRefs(body) =
                    Once(AllPatternRefs(call_args.profile),
                         call_args.pattern_id_mapping)
              /\ NestedRefs(body) =
                    Once(NestedRefs(call_args.profile),
                         call_args.profile_id_mapping)
              /\ call_args'.profile = call_args.profile
    /\ Calling("compare_patterns") =>
          LET plan == call_result'.value
          IN  /\ Range(plan.to_create) \cup Range(plan.identical)
                    \cup UpdateSources(plan)
                 \subseteq Range(call_args.source_patterns)
              /\ call_args'.source_patterns = call_args.source_patterns

C27_SingleStepRewriting == [][C27_Step]_vars

\* create_profile was given a map in which the value of one key is itself
\* a key, and a profile whose references a second lookup would have changed
\* again: the body has each of them looked up once
C27_Witness ==
    /\ Returned("create_profile")
    /\ \E a \in DOMAIN Arg.pattern_id_mapping :
          Arg.pattern_id_mapping[a] \in DOMAIN Arg.pattern_id_mapping
    /\ Chained(AllPatternRefs(Arg.profile), Arg.pattern_id_mapping)
    /\ AllPatternRefs(Result.dataProfile) =
          Once(AllPatternRefs(Arg.profile), Arg.pattern_id_mapping)
    /\ AllPatternRefs(Result.dataProfile) # AllPatternRefs(Arg.profile)

\* _remap_profile_ids was given such a map and such a list of profile IDs
C27_ProfileChainWitness ==
    /\ Returned("_remap_profile_ids")
    /\ Chained(NestedRefs(Arg.profile), Arg.profile_id_mapping)
    /\ NestedRefs(Result) = Once(NestedRefs(Arg.profile), Arg.profile_id_mapping)
====
